---- MODULE Spec2Model ----
(***************************************************************************)
(* State-machine model of the OSA-Server backend: subscription credit and  *)
(* PDF metering (subscriptions/), the chat endpoint, the PDF ingestion     *)
(* pipeline, per-user and Foundation vector collections and the staff      *)
(* decorator (chatlog/).                                                   *)
(*                                                                         *)
(* Text is modelled by its length (the code only ever uses len(...)//4),   *)
(* time by a clock counting billing months.                                *)
(***************************************************************************)
EXTENDS Integers, Sequences, FiniteSets, TLC

VARIABLES
    now,        \* clock, in billing months (timezone.now())
    plans,      \* SubscriptionPlan rows, by name
    subs,       \* UserSubscription rows, by user (OneToOne)
    txs,        \* CreditTransaction rows, oldest first
    kbs,        \* UserKnowledgeBase rows
    sessions,   \* ChatSession rows, by session_id
    messages,   \* ChatMessage rows of each session, oldest first
    logs,       \* ConversationLog rows, oldest first
    chat,       \* in-flight ask_agent requests, by worker slot
    pdfs,       \* UploadedPDF rows, by id, with the file each stored
    vectors,    \* the chunks in the vector store (langchain_pg_embedding)
    fdocs,      \* FoundationDocument rows, by id
    uploads,    \* in-flight upload_pdf requests, by worker slot
    bg,         \* process_pdf_background threads, by PDF id
    fbg,        \* process_foundation_pdf_background threads, by document id
    agent_cache,       \* _agent_cache: the agent graph cached for a collection
    agent_cache_lock,  \* _agent_cache_lock: the call holding it, 0 when free
    current_model,     \* the active model id
    graphCalls,        \* in-flight get_or_create_agent_graph calls, by worker slot
    constructed,       \* the construct_agent_graph runs so far, oldest first
    setModel,          \* the in-flight set_model_config request
    parsing,           \* the parser chain of one process_pdf_background run
    listing,           \* a client paging through one list endpoint
    users,             \* the accounts registered since the start
    last        \* the response of the last request or thread step that ran

vars == <<now, plans, subs, txs, kbs, sessions, messages, logs, chat,
          pdfs, vectors, fdocs, uploads, bg, fbg,
          agent_cache, agent_cache_lock, current_model, graphCalls, constructed,
          setModel, parsing, listing, users, last>>

docVars == <<pdfs, vectors, fdocs, uploads, bg, fbg>>

chatVars == <<sessions, messages, logs, chat>>

agentVars == <<agent_cache, agent_cache_lock, current_model, graphCalls,
               constructed, setModel>>

\* what the subscription, chat and document handlers below never touch
otherVars == <<agent_cache, agent_cache_lock, current_model, graphCalls,
               constructed, setModel, parsing, listing, users>>

----------------------------------------------------------------------------
(* Bounds of the model *)

MaxTime == 2          \* months the clock may advance
MaxChats == 2         \* chat exchanges stored per run
MaxSessions == 2      \* chat sessions created per run
MaxTxs == 2           \* credit transactions stored per run
MaxPdfs == 2          \* PDFs uploaded per run
MaxFdocs == 1         \* Foundation documents uploaded per run
MaxKbs == 1           \* knowledge bases registered through create_user per run

(* Program constants *)

FreeCreditLimit == 1000
FreePdfLimit == 3
ProCreditLimit == 20000
ProPdfLimit == 20
PromptTokens == 50
MinChatCredits == 100
CharsPerToken == 4
HistoryWindow == 10

----------------------------------------------------------------------------
(* Small helpers *)

Max(a, b) == IF a >= b THEN a ELSE b

RECURSIVE SumSeq(_)
SumSeq(s) == IF s = <<>> THEN 0 ELSE Head(s) + SumSeq(Tail(s))

LastN(s, n) == IF Len(s) <= n THEN s ELSE SubSeq(s, Len(s) - n + 1, Len(s))


----------------------------------------------------------------------------
(* Accounts (accounts.User rows) and the credentials a request may carry *)

Accounts ==
    [u1    |-> [is_staff |-> FALSE, is_superuser |-> FALSE, is_active |-> TRUE,
                collection_name |-> "pdf_chunks_u1"],
     u2    |-> [is_staff |-> FALSE, is_superuser |-> FALSE, is_active |-> TRUE,
                collection_name |-> "pdf_chunks_u2"],
     staff |-> [is_staff |-> TRUE,  is_superuser |-> FALSE, is_active |-> TRUE,
                collection_name |-> "pdf_chunks_staff"],
     root  |-> [is_staff |-> FALSE, is_superuser |-> TRUE,  is_active |-> TRUE,
                collection_name |-> "pdf_chunks_root"],
     gone  |-> [is_staff |-> TRUE,  is_superuser |-> FALSE, is_active |-> FALSE,
                collection_name |-> "pdf_chunks_gone"]]

AccountNames == DOMAIN Accounts

\* a request carries no token, a token that does not validate, or the
\* access token of an account (named by the account)
Creds == {"none", "bad"} \cup AccountNames

\* User.save gives every account the collection "pdf_chunks_" + username
AccountCollection(u) == Accounts[u].collection_name

\* get_authenticated_user: the account of a valid token, "" otherwise
GetAuthenticatedUser(cred) == IF cred \in AccountNames THEN cred ELSE ""

----------------------------------------------------------------------------
(* subscriptions/models.py: UserSubscription *)

NewSubscription(plan, t) ==
    [plan |-> plan, status |-> "active", credits_used |-> 0,
     pdfs_uploaded |-> 0, period_end |-> t + 1]

\* credits_remaining without the clamp at zero
CreditsRemainingUnclamped(s) == plans[s.plan].credit_limit - s.credits_used

CreditsRemaining(s) == Max(0, plans[s.plan].credit_limit - s.credits_used)

PdfsRemaining(s) == Max(0, plans[s.plan].pdf_limit - s.pdfs_uploaded)

IsCreditsExhausted(s) == s.credits_used >= plans[s.plan].credit_limit

IsPdfLimitReached(s) == s.pdfs_uploaded >= plans[s.plan].pdf_limit

IsPeriodExpired(s) == now > s.period_end

\* reset_monthly_usage: the instance after the reset (saved in full by the caller)
ResetMonthlyUsage(s) == [s EXCEPT !.credits_used = 0, !.period_end = now + 1]

\* get_user_subscription on an instance: reset first when the period is over
GetUserSubscription(s) == IF IsPeriodExpired(s) THEN ResetMonthlyUsage(s) ELSE s

\* use_credits with the limit comparison made strict the other way: a request
\* that would use up the limit exactly is refused
UseCreditsRefusingExactFit(s, amount) ==
    LET base == GetUserSubscription(s) IN
    IF base.credits_used + amount >= plans[base.plan].credit_limit
    THEN [ok |-> FALSE, inst |-> base, reset |-> IsPeriodExpired(s)]
    ELSE [ok |-> TRUE,
          inst |-> [base EXCEPT !.credits_used = base.credits_used + amount],
          reset |-> IsPeriodExpired(s)]

\* UserSubscription.use_credits on an instance: the result, the instance
\* afterwards, and whether the expiry reset ran (a full save)
UseCreditsMethod(s, amount) ==
    LET base == GetUserSubscription(s) IN
    IF base.credits_used + amount > plans[base.plan].credit_limit
    THEN [ok |-> FALSE, inst |-> base, reset |-> IsPeriodExpired(s)]
    ELSE [ok |-> TRUE,
          inst |-> [base EXCEPT !.credits_used = base.credits_used + amount],
          reset |-> IsPeriodExpired(s)]

\* the rows after use_credits ran on instance s of user u: reset_monthly_usage
\* saves every field of the instance, use_credits saves credits_used alone
SaveUseCredits(u, s, res) ==
    LET afterReset == IF res.reset
                      THEN [subs EXCEPT ![u] = GetUserSubscription(s)]
                      ELSE subs
    IN IF res.ok
       THEN [afterReset EXCEPT ![u].credits_used = res.inst.credits_used]
       ELSE afterReset

\* the rows after get_user_subscription ran on instance s of user u
SaveGetSubscription(u, s) ==
    IF IsPeriodExpired(s) THEN [subs EXCEPT ![u] = ResetMonthlyUsage(s)] ELSE subs

\* the rows after utils.increment_pdf_count ran on instance s of user u:
\* pdfs_uploaded is saved alone, after the expiry reset's full save
IncrementPdfCount(u, s) ==
    LET base == GetUserSubscription(s) IN
    [SaveGetSubscription(u, s) EXCEPT ![u].pdfs_uploaded = base.pdfs_uploaded + 1]

\* the rows after utils.decrement_pdf_count ran on instance s of user u
DecrementPdfCount(u, s) ==
    LET base == GetUserSubscription(s) IN
    IF base.pdfs_uploaded > 0
    THEN [SaveGetSubscription(u, s) EXCEPT ![u].pdfs_uploaded = base.pdfs_uploaded - 1]
    ELSE SaveGetSubscription(u, s)

\* CreditTransaction.log_usage: the row it creates (the user and the type;
\* the amount and balance columns are not modelled)
LogUsage(u, type) == [user |-> u, type |-> type]

\* can_use_credits without the comparison of the balance with the amount
CanUseCreditsIgnoringAmount(s, amount) ==
    /\ s.status = "active"
    /\ ~IsCreditsExhausted(s)

\* subscriptions/utils.py can_use_credits, on the instance get_user_subscription returned
CanUseCredits(s, amount) ==
    /\ s.status = "active"
    /\ ~IsCreditsExhausted(s)
    /\ ~(amount > 0 /\ CreditsRemaining(s) < amount)

\* subscriptions/utils.py can_upload_pdf, likewise
CanUploadPdf(s) ==
    /\ s.status = "active"
    /\ ~IsPdfLimitReached(s)


----------------------------------------------------------------------------
(* chatlog/views.py: who a request acts for *)

\* A request: the token it carries and the username parameter it gives
\* ("" when it gives none).
Requester(cred, username) == [cred |-> cred, username |-> username]

KbIds == 1..Len(kbs)

KbByUsername(name) == {i \in KbIds : kbs[i].username = name}

KbByCollection(coll) == {i \in KbIds : kbs[i].collection_name = coll}

\* get_user_knowledge_base: the status it answers with (0: a row is returned),
\* the rows afterwards and the id of the row returned
GetUserKnowledgeBase(rq) ==
    LET user == GetAuthenticatedUser(rq.cred) IN
    IF user # ""
    THEN IF KbByUsername(user) # {}
         THEN [code |-> 0, kbs |-> kbs, kb |-> CHOOSE i \in KbByUsername(user) : TRUE]
         ELSE IF KbByCollection(AccountCollection(user)) # {}
         THEN LET i == CHOOSE j \in KbByCollection(AccountCollection(user)) : TRUE
              IN [code |-> 0, kbs |-> [kbs EXCEPT ![i].username = user], kb |-> i]
         ELSE [code |-> 0,
               kbs |-> Append(kbs, [username |-> user,
                                    collection_name |-> AccountCollection(user)]),
               kb |-> Len(kbs) + 1]
    ELSE IF rq.username = ""
         THEN [code |-> 401, kbs |-> kbs, kb |-> 0]
         ELSE IF KbByUsername(rq.username) # {}
         THEN [code |-> 0, kbs |-> kbs,
               kb |-> CHOOSE i \in KbByUsername(rq.username) : TRUE]
         ELSE [code |-> 404, kbs |-> kbs, kb |-> 0]

----------------------------------------------------------------------------
(* chatlog/views.py: ask_agent *)

Workers == 1..2

IdleChat ==
    [pc |-> "idle", rq |-> Requester("none", ""), kb |-> 0, qlen |-> 0, sid |-> 0,
     inst |-> NewSubscription("free", 0), title |-> "New Chat", hist |-> 0,
     outlen |-> 0]

SessionIds == 1..Len(sessions)

\* a session lookup by session_id alone, whoever owns the session
LiveSessionOfAnyone(sid, kb) == sid \in SessionIds /\ sessions[sid].alive

LiveSession(sid, kb) ==
    sid \in SessionIds /\ sessions[sid].alive /\ sessions[sid].kb = kb

\* len(chat_history) for the messages ask_agent read
ChatHistoryLen(msgs) ==
    LET recent == LastN(msgs, HistoryWindow)
        line(m) == IF m.role = "user" THEN 15 + m.len + 1
                   ELSE IF m.role = "assistant" THEN 13 + m.len + 2
                   ELSE 0
        body == SumSeq([i \in 1..Len(recent) |-> line(recent[i])])
    IN IF body > 0 THEN 39 + body ELSE 0

\* the credits ask_agent asks can_use_credits for
MinCreditsNeeded(qlen) == Max(qlen \div CharsPerToken + PromptTokens, MinChatCredits)

\* the credits ask_agent deducts after the agent answered
ChatCost(qlen, hist, outlen) ==
    (qlen \div CharsPerToken + hist \div CharsPerToken + PromptTokens)
        + outlen \div CharsPerToken

\* ChatSession.save: a session still titled "New Chat" takes its title from
\* its first user message
SessionTitle(title, msgs) ==
    IF title = "New Chat" /\ \E i \in 1..Len(msgs) : msgs[i].role = "user"
    THEN "first message"
    ELSE title

Respond(op, rq, code, n, m) ==
    [op |-> op, cred |-> rq.cred, username |-> rq.username, code |-> code,
     n |-> n, m |-> m]

\* ask_agent up to the agent call: validation, knowledge base, credit check,
\* session lookup or creation, chat history
AskCheck(w, rq, qlen, sid) ==
    /\ chat[w].pc = "idle"
    /\ Len(logs) + Cardinality({v \in Workers : chat[v].pc # "idle"}) < MaxChats
    /\ sid = 0 => Len(sessions) < MaxSessions
    /\ UNCHANGED otherVars
    /\ UNCHANGED <<now, plans, txs, logs>>
    /\ UNCHANGED docVars
    /\ IF qlen = 0
       THEN /\ last' = Respond("ask_check", rq, 400, qlen, sid)
            /\ UNCHANGED <<subs, kbs, sessions, messages, chat>>
       ELSE
       LET got == GetUserKnowledgeBase(rq)
           user == GetAuthenticatedUser(rq.cred)
           hasSub == user # "" /\ user \in DOMAIN subs
           inst == IF hasSub THEN GetUserSubscription(subs[user])
                   ELSE IdleChat.inst
           allowed == user = "" \/ (hasSub /\ CanUseCredits(inst, MinCreditsNeeded(qlen)))
           newSid == Len(sessions) + 1
           theSid == IF sid = 0 THEN newSid ELSE sid
       IN
       IF got.code # 0
       THEN /\ last' = Respond("ask_check", rq, got.code, qlen, sid)
            /\ UNCHANGED <<subs, kbs, sessions, messages, chat>>
       ELSE
       /\ kbs' = got.kbs
       /\ subs' = IF hasSub THEN SaveGetSubscription(user, subs[user]) ELSE subs
       /\ IF ~allowed
          THEN /\ last' = Respond("ask_check", rq, 403, qlen, sid)
               /\ UNCHANGED <<sessions, messages, chat>>
          ELSE IF sid # 0 /\ ~LiveSession(sid, got.kb)
          THEN /\ last' = Respond("ask_check", rq, 404, qlen, sid)
               /\ UNCHANGED <<sessions, messages, chat>>
          ELSE
          /\ sessions' = IF sid = 0
                         THEN Append(sessions, [kb |-> got.kb, title |-> "New Chat",
                                                alive |-> TRUE])
                         ELSE sessions
          /\ messages' = IF sid = 0 THEN Append(messages, <<>>) ELSE messages
          /\ chat' = [chat EXCEPT ![w] =
                        [pc |-> "invoke", rq |-> rq, kb |-> got.kb, qlen |-> qlen,
                         sid |-> theSid, inst |-> inst,
                         title |-> IF sid = 0 THEN "New Chat" ELSE sessions[sid].title,
                         hist |-> IF sid = 0 THEN 0 ELSE ChatHistoryLen(messages[sid]),
                         outlen |-> 0]]
          /\ last' = Respond("ask_check", rq, 0, qlen, theSid)

\* agent_graph.invoke: the agent answers with a text of outlen characters, or raises
AskInvoke(w, outlen, raises) ==
    /\ chat[w].pc = "invoke"
    /\ UNCHANGED otherVars
    /\ UNCHANGED <<now, plans, subs, txs, kbs, sessions, messages, logs>>
    /\ UNCHANGED docVars
    /\ IF raises
       THEN /\ chat' = [chat EXCEPT ![w] = IdleChat]
            /\ last' = Respond("ask_invoke", chat[w].rq, 500, chat[w].qlen, chat[w].sid)
       ELSE /\ chat' = [chat EXCEPT ![w].pc = "settle", ![w].outlen = outlen]
            /\ last' = Respond("ask_invoke", chat[w].rq, 0, chat[w].qlen, chat[w].sid)

\* ask_agent after the agent answered: credit deduction, messages, session
\* save, conversation log, response
AskSettle(w) ==
    LET c == chat[w]
        user == GetAuthenticatedUser(c.rq.cred)
        cost == ChatCost(c.qlen, c.hist, c.outlen)
        res == UseCreditsMethod(c.inst, cost)
        msgs == messages[c.sid] \o <<[role |-> "user", len |-> c.qlen],
                                     [role |-> "assistant", len |-> c.outlen]>>
    IN
    /\ c.pc = "settle"
    /\ UNCHANGED otherVars
    /\ UNCHANGED <<now, plans, kbs>>
    /\ UNCHANGED docVars
    /\ chat' = [chat EXCEPT ![w] = IdleChat]
    /\ subs' = IF user # "" THEN SaveUseCredits(user, c.inst, res) ELSE subs
    /\ txs' = IF user # "" /\ res.ok
              THEN Append(txs, LogUsage(user, "chat"))
              ELSE txs
    /\ IF sessions[c.sid].alive
       THEN /\ messages' = [messages EXCEPT ![c.sid] = msgs]
            /\ sessions' = [sessions EXCEPT ![c.sid].title =
                               SessionTitle(c.title, msgs)]
            /\ logs' = Append(logs, c.kb)
            /\ last' = Respond("ask_settle", c.rq, 200, cost, c.sid)
       ELSE \* the session was deleted meanwhile: ChatMessage.objects.create raises
            /\ UNCHANGED <<messages, sessions, logs>>
            /\ last' = Respond("ask_settle", c.rq, 500, cost, c.sid)


----------------------------------------------------------------------------
(* subscriptions/views.py: use_credits *)

\* rest_framework IsAuthenticated over the JWT authentication: the account of
\* a valid token of an active user, "" otherwise
DrfUser(cred) ==
    IF cred \in AccountNames /\ Accounts[cred].is_active THEN cred ELSE ""

UseCreditsView(cred, amount) ==
    LET user == DrfUser(cred)
        rq == Requester(cred, "")
        res == UseCreditsMethod(subs[user], amount)
    IN
    /\ Len(txs) < MaxTxs
    /\ UNCHANGED otherVars
    /\ UNCHANGED <<now, plans, kbs, sessions, messages, logs, chat>>
    /\ UNCHANGED docVars
    /\ IF user = ""
       THEN /\ last' = Respond("use_credits", rq, 401, amount, 0)
            /\ UNCHANGED <<subs, txs>>
       ELSE IF amount <= 0
       THEN /\ last' = Respond("use_credits", rq, 400, amount, 0)
            /\ UNCHANGED <<subs, txs>>
       ELSE IF user \notin DOMAIN subs
       THEN /\ last' = Respond("use_credits", rq, 404, amount, 0)
            /\ UNCHANGED <<subs, txs>>
       ELSE /\ subs' = SaveUseCredits(user, subs[user], res)
            /\ txs' = IF res.ok
                      THEN Append(txs, LogUsage(user, "chat"))
                      ELSE txs
            /\ last' = Respond("use_credits", rq, IF res.ok THEN 200 ELSE 402,
                               amount, CreditsRemaining(res.inst))

----------------------------------------------------------------------------
(* subscriptions/views.py: current_subscription, upgrade_plan *)

\* current_subscription: the serialized subscription, which carries
\* credits_remaining (n) and pdfs_remaining (m)
CurrentSubscription(cred) ==
    LET user == DrfUser(cred)
        rq == Requester(cred, "")
        inst == GetUserSubscription(subs[user])
    IN
    /\ UNCHANGED otherVars
    /\ UNCHANGED <<now, plans, txs, kbs, sessions, messages, logs, chat>>
    /\ UNCHANGED docVars
    /\ IF user = ""
       THEN /\ last' = Respond("current_subscription", rq, 401, 0, 0)
            /\ UNCHANGED subs
       ELSE IF user \notin DOMAIN subs
       THEN /\ last' = Respond("current_subscription", rq, 404, 0, 0)
            /\ UNCHANGED subs
       ELSE /\ subs' = SaveGetSubscription(user, subs[user])
            /\ last' = Respond("current_subscription", rq, 200,
                               CreditsRemaining(inst), PdfsRemaining(inst))

\* upgrade_plan: switches the subscription to an active plan, without payment
UpgradePlan(cred, plan) ==
    LET user == DrfUser(cred)
        rq == Requester(cred, plan)
    IN
    /\ UNCHANGED otherVars
    /\ UNCHANGED <<now, plans, txs, kbs, sessions, messages, logs, chat>>
    /\ UNCHANGED docVars
    /\ IF user = ""
       THEN /\ last' = Respond("upgrade_plan", rq, 401, 0, 0)
            /\ UNCHANGED subs
       ELSE IF plan = ""
       THEN /\ last' = Respond("upgrade_plan", rq, 400, 0, 0)
            /\ UNCHANGED subs
       ELSE IF plan \notin DOMAIN plans \/ ~plans[plan].is_active
       THEN /\ last' = Respond("upgrade_plan", rq, 404, 0, 0)
            /\ UNCHANGED subs
       ELSE IF user \notin DOMAIN subs
       THEN /\ last' = Respond("upgrade_plan", rq, 404, 0, 0)
            /\ UNCHANGED subs
       ELSE /\ subs' = [subs EXCEPT ![user].plan = plan, ![user].status = "active"]
            /\ last' = Respond("upgrade_plan", rq, 200, 0, 0)

----------------------------------------------------------------------------
(* chatlog/decorators.py: require_staff *)

\* a wrapper that lets every authenticated user through
RequireLogin(cred) ==
    IF cred \notin AccountNames THEN 401
    ELSE IF ~Accounts[cred].is_active THEN 401
    ELSE 0

\* the status the wrapper answers with, 0 when it calls the view
\* (JWTAuthentication.authenticate returns None without a token and raises
\* for an invalid token and for the token of an inactive user)
RequireStaff(cred) ==
    IF cred \notin AccountNames THEN 401
    ELSE IF ~Accounts[cred].is_active THEN 401
    ELSE IF ~(Accounts[cred].is_staff \/ Accounts[cred].is_superuser) THEN 403
    ELSE 0

----------------------------------------------------------------------------
(* chatlog/admin_views.py: adjust_user_credits *)

MaxCreditsUsed == 1500    \* cap on credits_used under admin subtractions

AdjustUserCredits(cred, user, amount, operation) ==
    LET rq == Requester(cred, "")
        s == subs[user]
        used == IF operation = "add" THEN Max(0, s.credits_used - amount)
                ELSE s.credits_used + amount
        after == [s EXCEPT !.credits_used = used]
    IN
    /\ user \in DOMAIN subs
    /\ used <= MaxCreditsUsed
    /\ UNCHANGED otherVars
    /\ UNCHANGED <<now, plans, txs, kbs, sessions, messages, logs, chat>>
    /\ UNCHANGED docVars
    /\ IF RequireStaff(cred) # 0
       THEN /\ last' = Respond("adjust_user_credits", rq, RequireStaff(cred), amount, 0)
            /\ UNCHANGED subs
       ELSE /\ subs' = [subs EXCEPT ![user] = after]
            /\ last' = Respond("adjust_user_credits", rq, 200, amount,
                               CreditsRemaining(after))

----------------------------------------------------------------------------
(* Identifiers as requests and chunk metadata carry them *)

\* Python str() of a non-negative int: its decimal digits
RECURSIVE Digits(_)
Digits(n) == IF n < 10 THEN <<n>> ELSE Digits(n \div 10) \o <<n % 10>>

\* Python int() of a string of decimal digits, as the ORM applies it to the
\* value of an id lookup (leading zeros are accepted)
RECURSIVE IntOfDigits(_)
IntOfDigits(d) ==
    IF d = <<>> THEN 0
    ELSE 10 * IntOfDigits(SubSeq(d, 1, Len(d) - 1)) + d[Len(d)]

\* a pdf_id as delete_pdf receives it: a JSON number, or a string (from a JSON
\* body or the query string; the empty string stands for a missing pdf_id too)
JsonInt(n) == [kind |-> "int", text |-> Digits(n)]

JsonStr(d) == [kind |-> "str", text |-> d]

\* `not pdf_id`
IsFalsy(raw) == raw.text = <<>> \/ (raw.kind = "int" /\ IntOfDigits(raw.text) = 0)

\* the id UploadedPDF.objects.get(id=pdf_id) looks up
IdOf(raw) == IntOfDigits(raw.text)

\* str(pdf_id), the SQL parameter compared with cmetadata->>'pdf_id'
StrOf(raw) == raw.text

----------------------------------------------------------------------------
(* The vector store *)

FOUNDATION_COLLECTION == "foundation_mining_kb"

\* the chunks of one document: the collection they are stored in and the
\* metadata key ('pdf_id' or 'foundation_doc_id') that carries str(id)
Chunk(coll, key, id) == [coll |-> coll, key |-> key, tag |-> Digits(id)]

ChunksOf(coll) == {c \in vectors : c.coll = coll}

----------------------------------------------------------------------------
(* chatlog/views.py: create_user *)

CreateUser(username, collection_name) ==
    LET rq == Requester("none", username) IN
    /\ Len(kbs) < MaxKbs
    /\ UNCHANGED otherVars
    /\ UNCHANGED <<now, plans, subs, txs>>
    /\ UNCHANGED chatVars
    /\ UNCHANGED docVars
    /\ IF username = "" \/ collection_name = ""
       THEN /\ last' = Respond("create_user", rq, 400, 0, 0)
            /\ UNCHANGED kbs
       ELSE IF KbByUsername(username) # {} \/ KbByCollection(collection_name) # {}
       THEN \* both columns are unique: the INSERT raises IntegrityError
            /\ last' = Respond("create_user", rq, 500, 0, 0)
            /\ UNCHANGED kbs
       ELSE /\ kbs' = Append(kbs, [username |-> username,
                                   collection_name |-> collection_name])
            /\ last' = Respond("create_user", rq, 200, 0, Len(kbs) + 1)

----------------------------------------------------------------------------
(* chatlog/views.py: upload_pdf and process_pdf_background *)

PdfIds == 1..Len(pdfs)

\* the status field's default, which upload_pdf never uses
DefaultStatus == "uploading"

\* the status upload_pdf creates a record with
CreatedStatus == "processing"

OwnedPdf(id, kb) == id \in PdfIds /\ pdfs[id].alive /\ pdfs[id].kb = kb

IdleUpload ==
    [pc |-> "idle", rq |-> Requester("none", ""), kb |-> 0, coll |-> "",
     inst |-> NewSubscription("free", 0), counted |-> FALSE]

\* upload_pdf up to the file checks: knowledge base, PDF limit, file present
UploadCheck(w, rq, hasFile) ==
    LET got == GetUserKnowledgeBase(rq)
        user == GetAuthenticatedUser(rq.cred)
        hasSub == user # "" /\ user \in DOMAIN subs
        inst == IF hasSub THEN GetUserSubscription(subs[user]) ELSE IdleUpload.inst
        allowed == user = "" \/ (hasSub /\ CanUploadPdf(inst))
    IN
    /\ uploads[w].pc = "idle"
    /\ Len(pdfs) + Cardinality({v \in Workers : uploads[v].pc # "idle"}) < MaxPdfs
    /\ UNCHANGED otherVars
    /\ UNCHANGED <<now, plans, txs>>
    /\ UNCHANGED chatVars
    /\ UNCHANGED <<pdfs, vectors, fdocs, bg, fbg>>
    /\ IF got.code # 0
       THEN /\ last' = Respond("upload_check", rq, got.code, 0, 0)
            /\ UNCHANGED <<subs, kbs, uploads>>
       ELSE
       /\ kbs' = got.kbs
       /\ subs' = IF hasSub THEN SaveGetSubscription(user, subs[user]) ELSE subs
       /\ IF ~allowed
          THEN /\ last' = Respond("upload_check", rq, 403, 0, 0)
               /\ UNCHANGED uploads
          ELSE IF ~hasFile
          THEN /\ last' = Respond("upload_check", rq, 400, 0, 0)
               /\ UNCHANGED uploads
          ELSE /\ uploads' = [uploads EXCEPT ![w] =
                                [pc |-> "store", rq |-> rq, kb |-> got.kb,
                                 coll |-> got.kbs[got.kb].collection_name,
                                 inst |-> inst, counted |-> hasSub]]
               /\ last' = Respond("upload_check", rq, 0, 0, 0)

\* upload_pdf from the file write on: the file, the record, the PDF counter
\* (on the subscription instance the limit check read), the thread start
UploadStore(w) ==
    LET u == uploads[w]
        user == GetAuthenticatedUser(u.rq.cred)
    IN
    /\ u.pc = "store"
    /\ UNCHANGED otherVars
    /\ UNCHANGED <<now, plans, txs, kbs>>
    /\ UNCHANGED chatVars
    /\ UNCHANGED <<vectors, fdocs, fbg>>
    /\ pdfs' = Append(pdfs, [alive |-> TRUE, kb |-> u.kb, status |-> CreatedStatus,
                             file |-> TRUE])
    /\ bg' = Append(bg, [pc |-> "start", coll |-> u.coll])
    /\ subs' = IF u.counted THEN IncrementPdfCount(user, u.inst) ELSE subs
    /\ uploads' = [uploads EXCEPT ![w] = IdleUpload]
    /\ last' = Respond("upload_pdf", u.rq, 200, 0, Len(pdfs) + 1)

\* Model.save() of the instance the thread holds: an UPDATE of the row, or an
\* INSERT when the row was deleted meanwhile
SavePdf(i, status) == [pdfs EXCEPT ![i].alive = TRUE, ![i].status = status]

\* an except handler that only logs: the record stays as it was
BgExceptLoggingOnly(i) == pdfs

\* the thread's except handler: the record is marked failed if it still exists
BgExcept(i) == IF pdfs[i].alive THEN [pdfs EXCEPT ![i].status = "failed"] ELSE pdfs

BgStep(i) == Respond("process_pdf_background", Requester("none", ""), 0, 0, i)

\* the thread loads the record and saves it as 'processing'
BgStart(i) ==
    /\ i \in PdfIds
    /\ bg[i].pc = "start"
    /\ UNCHANGED otherVars
    /\ UNCHANGED <<now, plans, subs, txs, kbs>>
    /\ UNCHANGED chatVars
    /\ UNCHANGED <<vectors, fdocs, uploads, fbg>>
    /\ IF pdfs[i].alive
       THEN /\ pdfs' = SavePdf(i, "processing")
            /\ bg' = [bg EXCEPT ![i].pc = "parse"]
       ELSE \* DoesNotExist, in the handler again
            /\ pdfs' = BgExcept(i)
            /\ bg' = [bg EXCEPT ![i].pc = "done"]
    /\ last' = BgStep(i)

\* the parsers and the splitter ran: they produced chunks or they did not
BgParse(i, found) ==
    /\ i \in PdfIds
    /\ bg[i].pc = "parse"
    /\ UNCHANGED otherVars
    /\ UNCHANGED <<now, plans, subs, txs, kbs>>
    /\ UNCHANGED chatVars
    /\ UNCHANGED <<vectors, fdocs, uploads, fbg>>
    /\ IF found
       THEN /\ bg' = [bg EXCEPT ![i].pc = "embed"]
            /\ UNCHANGED pdfs
       ELSE /\ pdfs' = [SavePdf(i, "failed") EXCEPT ![i].file = FALSE]
            /\ bg' = [bg EXCEPT ![i].pc = "done"]
    /\ last' = BgStep(i)

\* vectorstore.add_documents stores the chunks, tagged str(pdf_id), or raises
BgEmbed(i, raises) ==
    /\ i \in PdfIds
    /\ bg[i].pc = "embed"
    /\ UNCHANGED otherVars
    /\ UNCHANGED <<now, plans, subs, txs, kbs>>
    /\ UNCHANGED chatVars
    /\ UNCHANGED <<fdocs, uploads, fbg>>
    /\ IF raises
       THEN /\ pdfs' = BgExcept(i)
            /\ bg' = [bg EXCEPT ![i].pc = "done"]
            /\ UNCHANGED vectors
       ELSE /\ vectors' = vectors \cup {Chunk(bg[i].coll, "pdf_id", i)}
            /\ bg' = [bg EXCEPT ![i].pc = "save"]
            /\ UNCHANGED pdfs
    /\ last' = BgStep(i)

\* the thread saves the record as 'completed'
BgSave(i) ==
    /\ i \in PdfIds
    /\ bg[i].pc = "save"
    /\ UNCHANGED otherVars
    /\ UNCHANGED <<now, plans, subs, txs, kbs>>
    /\ UNCHANGED chatVars
    /\ UNCHANGED <<vectors, fdocs, uploads, fbg>>
    /\ pdfs' = SavePdf(i, "completed")
    /\ bg' = [bg EXCEPT ![i].pc = "done"]
    /\ last' = BgStep(i)

----------------------------------------------------------------------------
(* chatlog/views.py: get_pdf_status, get_pdf_file, delete_pdf *)

GetPdfStatus(rq, id) ==
    LET got == GetUserKnowledgeBase(rq) IN
    /\ UNCHANGED otherVars
    /\ UNCHANGED <<now, plans, subs, txs>>
    /\ UNCHANGED chatVars
    /\ UNCHANGED docVars
    /\ IF got.code # 0
       THEN /\ last' = Respond("get_pdf_status", rq, got.code, 0, id)
            /\ UNCHANGED kbs
       ELSE /\ kbs' = got.kbs
            /\ last' = Respond("get_pdf_status", rq,
                               IF OwnedPdf(id, got.kb) THEN 200 ELSE 404, 0, id)

GetPdfFile(rq, id) ==
    LET got == GetUserKnowledgeBase(rq) IN
    /\ UNCHANGED otherVars
    /\ UNCHANGED <<now, plans, subs, txs>>
    /\ UNCHANGED chatVars
    /\ UNCHANGED docVars
    /\ IF got.code # 0
       THEN /\ last' = Respond("get_pdf_file", rq, got.code, 0, id)
            /\ UNCHANGED kbs
       ELSE /\ kbs' = got.kbs
            /\ last' = Respond("get_pdf_file", rq,
                               IF OwnedPdf(id, got.kb) /\ pdfs[id].file
                               THEN 200 ELSE 404, 0, id)

\* the chunks delete_pdf removes from collection coll for PDF id of
\* knowledge base kb, asked for as raw
ChunksToDelete(coll, kb, id, raw) ==
    LET byTag == {c \in ChunksOf(coll) : c.key = "pdf_id" /\ c.tag = StrOf(raw)}
        others == {j \in PdfIds \ {id} : pdfs[j].alive /\ pdfs[j].kb = kb}
    IN IF byTag # {} THEN byTag
       ELSE IF others = {} THEN ChunksOf(coll)
       ELSE {}

DeletePdf(rq, raw) ==
    LET got == GetUserKnowledgeBase(rq)
        id == IdOf(raw)
        user == GetAuthenticatedUser(rq.cred)
    IN
    /\ UNCHANGED otherVars
    /\ UNCHANGED <<now, plans, txs>>
    /\ UNCHANGED chatVars
    /\ UNCHANGED <<fdocs, uploads, bg, fbg>>
    /\ IF got.code # 0
       THEN /\ last' = Respond("delete_pdf", rq, got.code, 0, id)
            /\ UNCHANGED <<subs, kbs, pdfs, vectors>>
       ELSE
       /\ kbs' = got.kbs
       /\ IF IsFalsy(raw)
          THEN /\ last' = Respond("delete_pdf", rq, 400, 0, id)
               /\ UNCHANGED <<subs, pdfs, vectors>>
          ELSE IF ~OwnedPdf(id, got.kb)
          THEN /\ last' = Respond("delete_pdf", rq, 404, 0, id)
               /\ UNCHANGED <<subs, pdfs, vectors>>
          ELSE /\ vectors' = vectors \ ChunksToDelete(got.kbs[got.kb].collection_name,
                                                      got.kb, id, raw)
               /\ pdfs' = [pdfs EXCEPT ![id].alive = FALSE, ![id].file = FALSE]
               /\ subs' = IF user # "" /\ user \in DOMAIN subs
                          THEN DecrementPdfCount(user, subs[user])
                          ELSE subs
               /\ last' = Respond("delete_pdf", rq, 200, 0, id)

----------------------------------------------------------------------------
(* chatlog/views.py: get_session_messages, update_session, delete_session *)

GetSessionMessages(rq, sid) ==
    LET got == GetUserKnowledgeBase(rq) IN
    /\ UNCHANGED otherVars
    /\ UNCHANGED <<now, plans, subs, txs>>
    /\ UNCHANGED chatVars
    /\ UNCHANGED docVars
    /\ IF got.code # 0
       THEN /\ last' = Respond("get_session_messages", rq, got.code, 0, sid)
            /\ UNCHANGED kbs
       ELSE /\ kbs' = got.kbs
            /\ last' = Respond("get_session_messages", rq,
                               IF LiveSession(sid, got.kb) THEN 200 ELSE 404, 0, sid)

UpdateSession(rq, sid, title) ==
    LET got == GetUserKnowledgeBase(rq) IN
    /\ UNCHANGED otherVars
    /\ UNCHANGED <<now, plans, subs, txs, messages, logs, chat>>
    /\ UNCHANGED docVars
    /\ IF title = ""
       THEN /\ last' = Respond("update_session", rq, 400, 0, sid)
            /\ UNCHANGED <<kbs, sessions>>
       ELSE IF got.code # 0
       THEN /\ last' = Respond("update_session", rq, got.code, 0, sid)
            /\ UNCHANGED <<kbs, sessions>>
       ELSE
       /\ kbs' = got.kbs
       /\ IF ~LiveSession(sid, got.kb)
          THEN /\ last' = Respond("update_session", rq, 404, 0, sid)
               /\ UNCHANGED sessions
          ELSE /\ sessions' = [sessions EXCEPT ![sid].title =
                                  SessionTitle(title, messages[sid])]
               /\ last' = Respond("update_session", rq, 200, 0, sid)

\* delete_session: the session goes, and its messages with it (CASCADE)
DeleteSession(rq, sid) ==
    LET got == GetUserKnowledgeBase(rq) IN
    /\ UNCHANGED otherVars
    /\ UNCHANGED <<now, plans, subs, txs, logs, chat>>
    /\ UNCHANGED docVars
    /\ IF got.code # 0
       THEN /\ last' = Respond("delete_session", rq, got.code, 0, sid)
            /\ UNCHANGED <<kbs, sessions, messages>>
       ELSE
       /\ kbs' = got.kbs
       /\ IF ~LiveSession(sid, got.kb)
          THEN /\ last' = Respond("delete_session", rq, 404, 0, sid)
               /\ UNCHANGED <<sessions, messages>>
          ELSE /\ sessions' = [sessions EXCEPT ![sid].alive = FALSE]
               /\ messages' = [messages EXCEPT ![sid] = <<>>]
               /\ last' = Respond("delete_session", rq, 200, 0, sid)

----------------------------------------------------------------------------
(* chatlog/views.py: the Foundation knowledge base (staff endpoints) *)

FdocIds == 1..Len(fdocs)

UploadFoundationPdf(cred, hasFile) ==
    LET rq == Requester(cred, "") IN
    /\ Len(fdocs) < MaxFdocs
    /\ UNCHANGED otherVars
    /\ UNCHANGED <<now, plans, subs, txs, kbs>>
    /\ UNCHANGED chatVars
    /\ UNCHANGED <<pdfs, vectors, uploads, bg>>
    /\ IF RequireStaff(cred) # 0
       THEN /\ last' = Respond("upload_foundation_pdf", rq, RequireStaff(cred), 0, 0)
            /\ UNCHANGED <<fdocs, fbg>>
       ELSE IF ~hasFile
       THEN /\ last' = Respond("upload_foundation_pdf", rq, 400, 0, 0)
            /\ UNCHANGED <<fdocs, fbg>>
       ELSE /\ fdocs' = Append(fdocs, [alive |-> TRUE, status |-> "processing"])
            /\ fbg' = Append(fbg, [pc |-> "start"])
            /\ last' = Respond("upload_foundation_pdf", rq, 200, 0, Len(fdocs) + 1)

SaveFdoc(i, status) == [fdocs EXCEPT ![i].alive = TRUE, ![i].status = status]

FbgExcept(i) == IF fdocs[i].alive THEN [fdocs EXCEPT ![i].status = "failed"] ELSE fdocs

FbgStep(i) ==
    Respond("process_foundation_pdf_background", Requester("none", ""), 0, 0, i)

FbgStart(i) ==
    /\ i \in FdocIds
    /\ fbg[i].pc = "start"
    /\ UNCHANGED otherVars
    /\ UNCHANGED <<now, plans, subs, txs, kbs>>
    /\ UNCHANGED chatVars
    /\ UNCHANGED <<pdfs, vectors, uploads, bg>>
    /\ IF fdocs[i].alive
       THEN /\ fdocs' = SaveFdoc(i, "processing")
            /\ fbg' = [fbg EXCEPT ![i].pc = "parse"]
       ELSE /\ fdocs' = FbgExcept(i)
            /\ fbg' = [fbg EXCEPT ![i].pc = "done"]
    /\ last' = FbgStep(i)

FbgParse(i, found) ==
    /\ i \in FdocIds
    /\ fbg[i].pc = "parse"
    /\ UNCHANGED otherVars
    /\ UNCHANGED <<now, plans, subs, txs, kbs>>
    /\ UNCHANGED chatVars
    /\ UNCHANGED <<pdfs, vectors, uploads, bg>>
    /\ IF found
       THEN /\ fbg' = [fbg EXCEPT ![i].pc = "embed"]
            /\ UNCHANGED fdocs
       ELSE /\ fdocs' = SaveFdoc(i, "failed")
            /\ fbg' = [fbg EXCEPT ![i].pc = "done"]
    /\ last' = FbgStep(i)

FbgEmbed(i, raises) ==
    /\ i \in FdocIds
    /\ fbg[i].pc = "embed"
    /\ UNCHANGED otherVars
    /\ UNCHANGED <<now, plans, subs, txs, kbs>>
    /\ UNCHANGED chatVars
    /\ UNCHANGED <<pdfs, uploads, bg>>
    /\ IF raises
       THEN /\ fdocs' = FbgExcept(i)
            /\ fbg' = [fbg EXCEPT ![i].pc = "done"]
            /\ UNCHANGED vectors
       ELSE /\ vectors' = vectors \cup
                             {Chunk(FOUNDATION_COLLECTION, "foundation_doc_id", i)}
            /\ fbg' = [fbg EXCEPT ![i].pc = "save"]
            /\ UNCHANGED fdocs
    /\ last' = FbgStep(i)

FbgSave(i) ==
    /\ i \in FdocIds
    /\ fbg[i].pc = "save"
    /\ UNCHANGED otherVars
    /\ UNCHANGED <<now, plans, subs, txs, kbs>>
    /\ UNCHANGED chatVars
    /\ UNCHANGED <<pdfs, vectors, uploads, bg>>
    /\ fdocs' = SaveFdoc(i, "completed")
    /\ fbg' = [fbg EXCEPT ![i].pc = "done"]
    /\ last' = FbgStep(i)

\* delete_foundation_document: doc_id is an int taken from the URL
DeleteFoundationDocument(cred, id) ==
    LET rq == Requester(cred, "") IN
    /\ UNCHANGED otherVars
    /\ UNCHANGED <<now, plans, subs, txs, kbs>>
    /\ UNCHANGED chatVars
    /\ UNCHANGED <<pdfs, uploads, bg, fbg>>
    /\ IF RequireStaff(cred) # 0
       THEN /\ last' = Respond("delete_foundation_document", rq, RequireStaff(cred), 0, id)
            /\ UNCHANGED <<fdocs, vectors>>
       ELSE IF ~(id \in FdocIds /\ fdocs[id].alive)
       THEN /\ last' = Respond("delete_foundation_document", rq, 404, 0, id)
            /\ UNCHANGED <<fdocs, vectors>>
       ELSE /\ vectors' = vectors \
                             {c \in ChunksOf(FOUNDATION_COLLECTION) :
                                 c.key = "foundation_doc_id" /\ c.tag = Digits(id)}
            /\ fdocs' = [fdocs EXCEPT ![id].alive = FALSE]
            /\ last' = Respond("delete_foundation_document", rq, 200, 0, id)

----------------------------------------------------------------------------
(* chatlog/admin_views.py: delete_document *)

\* the administrator's delete: the record goes, its chunks, its file and the
\* owner's PDF counter stay
AdminDeleteDocument(cred, id) ==
    LET rq == Requester(cred, "") IN
    /\ UNCHANGED otherVars
    /\ UNCHANGED <<now, plans, subs, txs, kbs>>
    /\ UNCHANGED chatVars
    /\ UNCHANGED <<vectors, fdocs, uploads, bg, fbg>>
    /\ IF RequireStaff(cred) # 0
       THEN /\ last' = Respond("delete_document", rq, RequireStaff(cred), 0, id)
            /\ UNCHANGED pdfs
       ELSE IF ~(id \in PdfIds /\ pdfs[id].alive)
       THEN /\ last' = Respond("delete_document", rq, 404, 0, id)
            /\ UNCHANGED pdfs
       ELSE /\ pdfs' = [pdfs EXCEPT ![id].alive = FALSE]
            /\ last' = Respond("delete_document", rq, 200, 0, id)

----------------------------------------------------------------------------
(* chatlog/views.py: the agent graph cache (get_or_create_agent_graph), and
   chatlog/admin_views.py: set_model_config *)

MaxGraphCalls == 2    \* get_or_create_agent_graph calls per worker slot
MaxModelSets == 1     \* set_model_config requests per run

Collections == {"pdf_chunks_u1", "pdf_chunks_u2"}

\* the ids of AVAILABLE_MODELS; the first is the model active at start
ModelIds == {"model_a", "model_b"}

DefaultModel == "model_a"

\* set_current_model: the active model afterwards
SetCurrentModel(model_id) == model_id

\* construct_agent_graph: the graph it builds, for the model active when it runs
ConstructAgentGraph(coll) == [coll |-> coll, model |-> current_model, ok |-> TRUE]

\* a graph is named by the construct_agent_graph run that built it; 0: none
NoGraph == 0

IdleGraphCall ==
    [pc |-> "idle", coll |-> "", graph |-> NoGraph, via |-> "", since |-> "", n |-> 0]

IdleSetModel == [pc |-> "idle", cred |-> "none", n |-> 0]

GraphStep(w, code, graph) ==
    [op |-> "get_or_create_agent_graph", cred |-> "none", username |-> "",
     code |-> code, n |-> w, m |-> graph]

\* the call returns graph g (the request goes on to invoke it)
GraphReturn(w, g, via) ==
    [graphCalls EXCEPT ![w].pc = "done", ![w].graph = g, ![w].via = via]

\* the call raises (ask_agent answers 500)
GraphRaise(w) ==
    [graphCalls EXCEPT ![w].pc = "done", ![w].graph = NoGraph, ![w].via = "raised"]

\* get_or_create_agent_graph touches the cache alone
GraphFrame ==
    /\ UNCHANGED <<now, plans, subs, txs, kbs, parsing, listing, users>>
    /\ UNCHANGED chatVars
    /\ UNCHANGED docVars

\* a chat request reaches get_or_create_agent_graph(collection_name); since
\* is the model that was active when it started, if no switch was under way
GraphCallStart(w, coll) ==
    /\ GraphFrame
    /\ graphCalls[w].pc \in {"idle", "done"}
    /\ graphCalls[w].n < MaxGraphCalls
    /\ graphCalls' = [graphCalls EXCEPT ![w] =
                         [pc |-> "check", coll |-> coll, graph |-> NoGraph, via |-> "",
                          since |-> IF setModel.pc = "idle" THEN current_model ELSE "",
                          n |-> graphCalls[w].n + 1]]
    /\ last' = GraphStep(w, 0, NoGraph)
    /\ UNCHANGED <<agent_cache, agent_cache_lock, current_model, constructed, setModel>>

\* `if collection_name in _agent_cache`, outside the lock
GraphCheck(w) ==
    /\ GraphFrame
    /\ graphCalls[w].pc = "check"
    /\ graphCalls' = [graphCalls EXCEPT ![w].pc =
                         IF agent_cache[graphCalls[w].coll] # NoGraph
                         THEN "read" ELSE "acquire"]
    /\ last' = GraphStep(w, 0, NoGraph)
    /\ UNCHANGED <<agent_cache, agent_cache_lock, current_model, constructed, setModel>>

\* `return _agent_cache[collection_name]`, outside the lock: KeyError when
\* the cache was cleared since the membership test
GraphRead(w) ==
    LET g == agent_cache[graphCalls[w].coll] IN
    /\ GraphFrame
    /\ graphCalls[w].pc = "read"
    /\ IF g # NoGraph
       THEN /\ graphCalls' = GraphReturn(w, g, "fast")
            /\ last' = GraphStep(w, 0, g)
       ELSE /\ graphCalls' = GraphRaise(w)
            /\ last' = GraphStep(w, 500, NoGraph)
    /\ UNCHANGED <<agent_cache, agent_cache_lock, current_model, constructed, setModel>>

\* `with _agent_cache_lock:` the call waits until the lock is free
GraphAcquire(w) ==
    /\ GraphFrame
    /\ graphCalls[w].pc = "acquire"
    /\ agent_cache_lock = 0
    /\ agent_cache_lock' = w
    /\ graphCalls' = [graphCalls EXCEPT ![w].pc = "recheck"]
    /\ last' = GraphStep(w, 0, NoGraph)
    /\ UNCHANGED <<agent_cache, current_model, constructed, setModel>>

\* the second membership test left out: every call that takes the lock
\* constructs a graph
GraphRecheckSkipped(w) ==
    /\ GraphFrame
    /\ graphCalls[w].pc = "recheck"
    /\ graphCalls' = [graphCalls EXCEPT ![w].pc = "construct"]
    /\ last' = GraphStep(w, 0, NoGraph)
    /\ UNCHANGED <<agent_cache, agent_cache_lock, current_model, constructed, setModel>>

\* `if collection_name in _agent_cache`, under the lock
GraphRecheck(w) ==
    /\ GraphFrame
    /\ graphCalls[w].pc = "recheck"
    /\ graphCalls' = [graphCalls EXCEPT ![w].pc =
                         IF agent_cache[graphCalls[w].coll] # NoGraph
                         THEN "reread" ELSE "construct"]
    /\ last' = GraphStep(w, 0, NoGraph)
    /\ UNCHANGED <<agent_cache, agent_cache_lock, current_model, constructed, setModel>>

\* `return _agent_cache[collection_name]`, under the lock, which the return
\* (or the KeyError) releases
GraphReread(w) ==
    LET g == agent_cache[graphCalls[w].coll] IN
    /\ GraphFrame
    /\ graphCalls[w].pc = "reread"
    /\ agent_cache_lock' = 0
    /\ IF g # NoGraph
       THEN /\ graphCalls' = GraphReturn(w, g, "locked")
            /\ last' = GraphStep(w, 0, g)
       ELSE /\ graphCalls' = GraphRaise(w)
            /\ last' = GraphStep(w, 500, NoGraph)
    /\ UNCHANGED <<agent_cache, current_model, constructed, setModel>>

\* `agent_graph = construct_agent_graph(collection_name)`: it builds a graph,
\* or raises (the vector store cannot be opened), which releases the lock
GraphConstruct(w, raises) ==
    LET run == [ConstructAgentGraph(graphCalls[w].coll) EXCEPT !.ok = ~raises] IN
    /\ GraphFrame
    /\ graphCalls[w].pc = "construct"
    /\ constructed' = Append(constructed, run)
    /\ IF raises
       THEN /\ graphCalls' = GraphRaise(w)
            /\ agent_cache_lock' = 0
            /\ last' = GraphStep(w, 500, NoGraph)
       ELSE /\ graphCalls' = [graphCalls EXCEPT ![w].pc = "store",
                                                ![w].graph = Len(constructed) + 1]
            /\ UNCHANGED agent_cache_lock
            /\ last' = GraphStep(w, 0, NoGraph)
    /\ UNCHANGED <<agent_cache, current_model, setModel>>

\* `_agent_cache[collection_name] = agent_graph; return agent_graph`
GraphStore(w) ==
    LET c == graphCalls[w] IN
    /\ GraphFrame
    /\ c.pc = "store"
    /\ agent_cache' = [agent_cache EXCEPT ![c.coll] = c.graph]
    /\ agent_cache_lock' = 0
    /\ graphCalls' = GraphReturn(w, c.graph, "built")
    /\ last' = GraphStep(w, 0, c.graph)
    /\ UNCHANGED <<current_model, constructed, setModel>>

\* set_model_config up to set_current_model(model_id): a request that
\* started before the switch is no longer one that started after the last one
SetModelConfig(cred, model_id) ==
    LET rq == Requester(cred, model_id) IN
    /\ setModel.pc = "idle"
    /\ setModel.n < MaxModelSets
    /\ UNCHANGED <<now, plans, subs, txs, kbs, parsing, listing, users>>
    /\ UNCHANGED chatVars
    /\ UNCHANGED docVars
    /\ UNCHANGED <<agent_cache, agent_cache_lock, constructed>>
    /\ IF RequireStaff(cred) # 0
       THEN /\ last' = Respond("set_model_config", rq, RequireStaff(cred), 0, 0)
            /\ UNCHANGED <<current_model, graphCalls, setModel>>
       ELSE IF model_id \notin ModelIds
       THEN /\ last' = Respond("set_model_config", rq, 400, 0, 0)
            /\ UNCHANGED <<current_model, graphCalls, setModel>>
       ELSE /\ current_model' = SetCurrentModel(model_id)
            /\ graphCalls' = [w \in Workers |-> [graphCalls[w] EXCEPT !.since = ""]]
            /\ setModel' = [pc |-> "clear", cred |-> cred, n |-> setModel.n + 1]
            /\ last' = Respond("set_model_config", rq, 0, 0, 0)

\* set_model_config from `_agent_cache.clear()` on; the lock is not taken
SetModelClear ==
    /\ setModel.pc = "clear"
    /\ UNCHANGED <<now, plans, subs, txs, kbs, parsing, listing, users>>
    /\ UNCHANGED chatVars
    /\ UNCHANGED docVars
    /\ UNCHANGED <<agent_cache_lock, current_model, graphCalls, constructed>>
    /\ agent_cache' = [c \in Collections |-> NoGraph]
    /\ setModel' = [setModel EXCEPT !.pc = "idle"]
    /\ last' = Respond("set_model_config", Requester(setModel.cred, current_model),
                       200, 0, 0)

InitAgents ==
    /\ agent_cache = [c \in Collections |-> NoGraph]
    /\ agent_cache_lock = 0
    /\ current_model = DefaultModel
    /\ graphCalls = [w \in Workers |-> IdleGraphCall]
    /\ constructed = <<>>
    /\ setModel = IdleSetModel

----------------------------------------------------------------------------
(* chatlog/views.py: the parser chain of process_pdf_background *)

\* the parsers in the order of the code
Parsers == <<"pymupdf", "pypdf", "docling", "ocr">>

\* what a parser run may do: produce documents, produce nothing (too little
\* text, an empty export, a timeout), raise
Outcomes == {"documents", "nothing", "raises"}

IdleParsing ==
    [pc |-> "idle",
     available |-> [pymupdf |-> TRUE, pypdf |-> TRUE, docling |-> TRUE, ocr |-> TRUE],
     invoked |-> <<>>, documents |-> ""]

ParseFrame ==
    /\ UNCHANGED <<now, plans, subs, txs, kbs, listing, users>>
    /\ UNCHANGED chatVars
    /\ UNCHANGED docVars
    /\ UNCHANGED agentVars

\* one parser's block: when its condition holds the parser runs and
\* `documents` becomes what it produced ([] when it raised); the next block
\* follows either way
ParserBlock(parser, condition, outcome, next) ==
    /\ parsing.pc = parser
    /\ ParseFrame
    /\ parsing' = IF condition
                  THEN [parsing EXCEPT
                           !.pc = next,
                           !.invoked = Append(@, [parser |-> parser, outcome |-> outcome]),
                           !.documents = IF outcome = "documents" THEN parser ELSE ""]
                  ELSE [parsing EXCEPT !.pc = next]
    /\ last' = [op |-> "process_pdf_background", cred |-> "none", username |-> parser,
                code |-> 0, n |-> 0, m |-> 0]

\* 1. `if PYMUPDF_AVAILABLE:`
ParsePyMuPDF(outcome) ==
    ParserBlock("pymupdf", parsing.available.pymupdf, outcome, "pypdf")

\* 2. `if not documents:`
ParsePyPDFLoader(outcome) ==
    ParserBlock("pypdf", parsing.documents = "", outcome, "docling")

\* 3. `if not documents and DOCLING_AVAILABLE:`
ParseDocling(outcome) ==
    ParserBlock("docling", parsing.documents = "" /\ parsing.available.docling,
                outcome, "ocr")

\* the OCR block entered whatever the earlier parsers produced
ParseOcrUnconditional(outcome) ==
    ParserBlock("ocr", parsing.available.ocr, outcome, "done")

\* 4. `if not documents and OCR_AVAILABLE:`
ParseOcr(outcome) ==
    ParserBlock("ocr", parsing.documents = "" /\ parsing.available.ocr, outcome, "done")

----------------------------------------------------------------------------
(* subscriptions/models.py: SubscriptionPlan.save; the plan endpoints of
   chatlog/admin_views.py; setup_plans; subscriptions/signals.py *)

MaxUsers == 2         \* accounts registered per run

EnterpriseCreditLimit == 100000
EnterprisePdfLimit == 100

\* an empty table
NoRows == [n \in {} |-> 0]

\* the plans setup_plans writes
PlanCatalog ==
    [free |-> [credit_limit |-> FreeCreditLimit, pdf_limit |-> FreePdfLimit,
               is_default |-> TRUE, is_active |-> TRUE],
     pro  |-> [credit_limit |-> ProCreditLimit, pdf_limit |-> ProPdfLimit,
               is_default |-> FALSE, is_active |-> TRUE],
     enterprise |-> [credit_limit |-> EnterpriseCreditLimit,
                     pdf_limit |-> EnterprisePdfLimit,
                     is_default |-> FALSE, is_active |-> FALSE]]

PlanNames == DOMAIN PlanCatalog

\* the usernames new accounts register under
NewNames == {"n1", "n2"}

\* the rows of P other than `name` no longer default
\* (filter(is_default=True).exclude(pk=self.pk).update(is_default=False))
UnsetOtherDefaults(P, name) ==
    [n \in DOMAIN P |-> IF n # name THEN [P[n] EXCEPT !.is_default = FALSE] ELSE P[n]]

\* save() without the override: the row is written, the others stay
PlanSaveKeepingDefaults(P, name, row) ==
    [n \in DOMAIN P \cup {name} |-> IF n = name THEN row ELSE P[n]]

\* SubscriptionPlan.save of the instance `row` named `name` on the table P
PlanSave(P, name, row) ==
    LET Q == IF row.is_default THEN UnsetOtherDefaults(P, name) ELSE P IN
    [n \in DOMAIN Q \cup {name} |-> IF n = name THEN row ELSE Q[n]]

PlanFrame ==
    /\ UNCHANGED <<now, txs, kbs, parsing, listing>>
    /\ UNCHANGED chatVars
    /\ UNCHANGED docVars
    /\ UNCHANGED agentVars

\* create_subscription_plan: objects.create saves a new instance; a name
\* already taken makes the INSERT raise after save() has unset the defaults
\* of the other rows (the new instance has a primary key of its own)
CreateSubscriptionPlan(cred, name, row) ==
    LET rq == Requester(cred, name) IN
    /\ PlanFrame
    /\ UNCHANGED <<subs, users>>
    /\ IF RequireStaff(cred) # 0
       THEN /\ last' = Respond("create_subscription_plan", rq, RequireStaff(cred), 0, 0)
            /\ UNCHANGED plans
       ELSE IF name \in DOMAIN plans
       THEN /\ plans' = IF row.is_default THEN UnsetOtherDefaults(plans, "") ELSE plans
            /\ last' = Respond("create_subscription_plan", rq, 500, 0, 0)
       ELSE /\ plans' = PlanSave(plans, name, row)
            /\ last' = Respond("create_subscription_plan", rq, 201, 0, 0)

\* a field of the request body: absent, true or false
Changes == {"keep", "true", "false"}

Changed(old, change) == IF change = "keep" THEN old ELSE change = "true"

\* update_subscription_plan with is_active and is_default in the body
UpdateSubscriptionPlan(cred, name, active, default) ==
    LET rq == Requester(cred, name) IN
    /\ PlanFrame
    /\ UNCHANGED <<subs, users>>
    /\ IF RequireStaff(cred) # 0
       THEN /\ last' = Respond("update_subscription_plan", rq, RequireStaff(cred), 0, 0)
            /\ UNCHANGED plans
       ELSE IF name \notin DOMAIN plans
       THEN /\ last' = Respond("update_subscription_plan", rq, 404, 0, 0)
            /\ UNCHANGED plans
       ELSE /\ plans' = PlanSave(plans, name,
                                 [plans[name] EXCEPT
                                     !.is_active = Changed(@, active),
                                     !.is_default = Changed(@, default)])
            /\ last' = Respond("update_subscription_plan", rq, 200, 0, 0)

\* delete_subscription_plan: a plan without active subscribers is deactivated
DeleteSubscriptionPlan(cred, name) ==
    LET rq == Requester(cred, name) IN
    /\ PlanFrame
    /\ UNCHANGED <<subs, users>>
    /\ IF RequireStaff(cred) # 0
       THEN /\ last' = Respond("delete_subscription_plan", rq, RequireStaff(cred), 0, 0)
            /\ UNCHANGED plans
       ELSE IF name \notin DOMAIN plans
       THEN /\ last' = Respond("delete_subscription_plan", rq, 404, 0, 0)
            /\ UNCHANGED plans
       ELSE IF \E u \in DOMAIN subs : subs[u].plan = name /\ subs[u].status = "active"
       THEN /\ last' = Respond("delete_subscription_plan", rq, 400, 0, 0)
            /\ UNCHANGED plans
       ELSE /\ plans' = PlanSave(plans, name, [plans[name] EXCEPT !.is_active = FALSE])
            /\ last' = Respond("delete_subscription_plan", rq, 200, 0, 0)

\* update_or_create(name=..., defaults=...): the row is written through save()
UpdateOrCreatePlan(P, name) == PlanSave(P, name, PlanCatalog[name])

\* the setup_plans command: the three plans, then a free subscription for
\* every account that has none
SetupPlans ==
    LET P == UpdateOrCreatePlan(
                 UpdateOrCreatePlan(UpdateOrCreatePlan(plans, "free"), "pro"),
                 "enterprise")
        everyone == AccountNames \cup users
    IN
    /\ PlanFrame
    /\ UNCHANGED users
    /\ plans' = P
    /\ subs' = [u \in everyone |->
                   IF u \in DOMAIN subs THEN subs[u] ELSE NewSubscription("free", now)]
    /\ last' = Respond("setup_plans", Requester("none", ""), 0, 0, 0)

\* the post_save receiver run for every save of a user, whether the save
\* created the row or not
CreateUserSubscriptionOnEverySave(u, created) ==
    LET defaults == {n \in DOMAIN plans : plans[n].is_default /\ plans[n].is_active}
        P == IF defaults # {} \/ "free" \in DOMAIN plans THEN plans
             ELSE PlanSave(plans, "free", PlanCatalog["free"])
        plan == IF defaults # {} THEN CHOOSE n \in defaults : TRUE ELSE "free"
    IN [plans |-> P,
        subs |-> IF u \in DOMAIN subs THEN subs
                 ELSE [v \in DOMAIN subs \cup {u} |->
                          IF v = u THEN NewSubscription(plan, now) ELSE subs[v]]]

\* create_user_subscription, the post_save receiver of the user model: the
\* plans and subscriptions after it ran for user u
CreateUserSubscription(u, created) ==
    LET defaults == {n \in DOMAIN plans : plans[n].is_default /\ plans[n].is_active}
        P == IF defaults # {} \/ "free" \in DOMAIN plans THEN plans
             ELSE PlanSave(plans, "free", PlanCatalog["free"])
        plan == IF defaults # {} THEN CHOOSE n \in defaults : TRUE ELSE "free"
    IN IF ~created THEN [plans |-> plans, subs |-> subs]
       ELSE [plans |-> P,
             subs |-> IF u \in DOMAIN subs THEN subs
                      ELSE [v \in DOMAIN subs \cup {u} |->
                               IF v = u THEN NewSubscription(plan, now) ELSE subs[v]]]

\* register_view: a new account is saved, which sends post_save with
\* created = True; a username already taken is refused by the serializer
RegisterView(name) ==
    LET rq == Requester("none", name)
        after == CreateUserSubscription(name, TRUE)
    IN
    /\ PlanFrame
    /\ Cardinality(users) < MaxUsers
    /\ IF name \in users \cup AccountNames
       THEN /\ last' = Respond("register", rq, 400, 0, 0)
            /\ UNCHANGED <<plans, subs, users>>
       ELSE /\ users' = users \cup {name}
            /\ plans' = after.plans
            /\ subs' = after.subs
            /\ last' = Respond("register", rq, 201, 0, 0)

\* update_profile_view: the account of the caller is saved again, which
\* sends post_save with created = False
UpdateProfileView(cred) ==
    LET rq == Requester(cred, "")
        user == DrfUser(cred)
        after == CreateUserSubscription(user, FALSE)
    IN
    /\ PlanFrame
    /\ UNCHANGED users
    /\ IF user = ""
       THEN /\ last' = Respond("update_profile", rq, 401, 0, 0)
            /\ UNCHANGED <<plans, subs>>
       ELSE /\ plans' = after.plans
            /\ subs' = after.subs
            /\ last' = Respond("update_profile", rq, 200, 0, 0)

----------------------------------------------------------------------------
(* The paginated list endpoints (list_foundation_documents in
   chatlog/views.py; list_users, list_all_documents and admin_feedback_list
   in chatlog/admin_views.py) and subscriptions/views.py: transaction_history *)

MaxItems == 5         \* rows in the filtered ordered result
MaxPage == 3          \* pages a client fetches in a row

DefaultPageSize == 20
FeedbackPageSize == 50
DefaultLimit == 50

ListEndpoints ==
    {"list_foundation_documents", "list_users", "list_all_documents",
     "admin_feedback_list"}

\* a query parameter that the request does not carry
Absent == [kind |-> "absent", text |-> <<>>]

\* a character that is not a decimal digit
Letter == 10

\* int(request.GET.get(name, default)): the default when the parameter is
\* absent, the number a string of digits spells, ValueError for another string
IntParam(raw, default) ==
    IF raw.kind = "absent" THEN [ok |-> TRUE, value |-> default]
    ELSE IF raw.text # <<>> /\ \A i \in 1..Len(raw.text) : raw.text[i] \in 0..9
    THEN [ok |-> TRUE, value |-> IntOfDigits(raw.text)]
    ELSE [ok |-> FALSE, value |-> 0]

\* the default page_size of an endpoint
PageSizeDefault(endpoint) ==
    IF endpoint = "admin_feedback_list" THEN FeedbackPageSize ELSE DefaultPageSize

\* the filtered ordered result, each row named by its position
ResultRows(total) == [i \in 1..total |-> i]

\* queryset[start:end] for 0 <= start <= end
Slice(rows, start, end) ==
    IF start >= Len(rows) THEN <<>>
    ELSE SubSeq(rows, start + 1, IF end < Len(rows) THEN end ELSE Len(rows))

\* the page count with the division rounding down
TotalPagesRoundedDown(total, page_size) == total \div page_size

\* (total_count + page_size - 1) // page_size
TotalPages(total, page_size) == (total + page_size - 1) \div page_size

\* the body of a 200 response: list_foundation_documents nests the page
\* fields under 'pagination' with has_next and has_prev, the three admin
\* lists carry page, page_size, total and total_pages alone
ListBody(endpoint, total, page, page_size) ==
    LET rows == Slice(ResultRows(total), (page - 1) * page_size,
                      (page - 1) * page_size + page_size)
        total_pages == TotalPages(total, page_size)
    IN IF endpoint = "list_foundation_documents"
       THEN [items |-> rows, total |-> total, page |-> page, page_size |-> page_size,
             total_pages |-> total_pages,
             has_next |-> page < total_pages, has_prev |-> page > 1]
       ELSE [items |-> rows, total |-> total, page |-> page, page_size |-> page_size,
             total_pages |-> total_pages]

IdleListing ==
    [endpoint |-> "", total |-> 0, page_size |-> Absent, pages |-> <<>>]

ListFrame ==
    /\ UNCHANGED <<now, plans, subs, txs, kbs, parsing, users>>
    /\ UNCHANGED chatVars
    /\ UNCHANGED docVars
    /\ UNCHANGED agentVars

\* one request to the list endpoint the client is paging through, with the
\* page parameter rawPage: the next page in turn, or a page the endpoint
\* cannot serve.  The try block turns ValueError (a parameter that is not a
\* number), ZeroDivisionError (page_size 0) and the ORM's refusal of a
\* negative index (page 0) into a 500 response.
ListPage(cred, rawPage) ==
    LET rq == Requester(cred, listing.endpoint)
        page == IntParam(rawPage, 1)
        size == IntParam(listing.page_size, PageSizeDefault(listing.endpoint))
    IN
    /\ listing.endpoint \in ListEndpoints
    /\ Len(listing.pages) < MaxPage
    /\ ListFrame
    /\ IF RequireStaff(cred) # 0
       THEN /\ last' = Respond(listing.endpoint, rq, RequireStaff(cred), 0, 0)
            /\ UNCHANGED listing
       ELSE IF ~page.ok \/ ~size.ok \/ page.value < 1 \/ size.value < 1
       THEN /\ last' = Respond(listing.endpoint, rq, 500, 0, 0)
            /\ UNCHANGED listing
       ELSE /\ page.value = Len(listing.pages) + 1
            /\ listing' = [listing EXCEPT !.pages =
                              Append(@, ListBody(listing.endpoint, listing.total,
                                                 page.value, size.value))]
            /\ last' = Respond(listing.endpoint, rq, 200, page.value, size.value)

\* the status of a request whose exception left the view uncaught
Unhandled == 0 - 1

\* transaction_history: no try block; int() of the limit and offset
\* parameters runs in the view body
TransactionHistory(cred, rawLimit, rawOffset) ==
    LET rq == Requester(cred, "")
        user == DrfUser(cred)
        limit == IntParam(rawLimit, DefaultLimit)
        offset == IntParam(rawOffset, 0)
        mine == SelectSeq(txs, LAMBDA t : t.user = user)
    IN
    /\ ListFrame
    /\ UNCHANGED listing
    /\ IF user = ""
       THEN last' = Respond("transaction_history", rq, 401, 0, 0)
       ELSE IF ~limit.ok \/ ~offset.ok
       THEN last' = Respond("transaction_history", rq, Unhandled, 0, 0)
       ELSE last' = Respond("transaction_history", rq, 200,
                            Len(Slice(mine, offset.value, offset.value + limit.value)),
                            Len(mine))

----------------------------------------------------------------------------
(* Nothing cached, parsed, listed or registered yet *)

InitOther ==
    /\ InitAgents
    /\ parsing = IdleParsing
    /\ listing = IdleListing
    /\ users = {}

----------------------------------------------------------------------------
(* Time *)

Tick ==
    /\ now < MaxTime
    /\ now' = now + 1
    /\ last' = Respond("tick", Requester("none", ""), 0, 0, 0)
    /\ UNCHANGED <<plans, subs, txs, kbs, sessions, messages, logs, chat>>
    /\ UNCHANGED docVars
    /\ UNCHANGED otherVars

----------------------------------------------------------------------------
(* Initial state: the plans of setup_plans, a subscription for every user
   account (subscriptions/signals.py), nothing uploaded or asked yet *)

NoDocuments ==
    /\ pdfs = <<>>
    /\ vectors = {}
    /\ fdocs = <<>>
    /\ uploads = [w \in Workers |-> IdleUpload]
    /\ bg = <<>>
    /\ fbg = <<>>

InitPlans ==
    [free |-> [credit_limit |-> FreeCreditLimit, pdf_limit |-> FreePdfLimit,
               is_default |-> TRUE, is_active |-> TRUE],
     pro  |-> [credit_limit |-> ProCreditLimit, pdf_limit |-> ProPdfLimit,
               is_default |-> FALSE, is_active |-> TRUE]]

\* the rows and requests of the initial state
InitData ==
    /\ now = 0
    /\ plans = InitPlans
    /\ subs = [u \in {"u1", "u2"} |-> NewSubscription("free", 0)]
    /\ txs = <<>>
    /\ kbs = <<>>
    /\ sessions = <<>>
    /\ messages = <<>>
    /\ logs = <<>>
    /\ chat = [w \in Workers |-> IdleChat]
    /\ NoDocuments
    /\ last = Respond("init", Requester("none", ""), 0, 0, 0)

Init == InitData /\ InitOther

----------------------------------------------------------------------------
(* The credit specification: a user spending credits through the credit
   endpoint, reading the subscription and switching plans, an administrator
   adjusting credits, months passing.  The user starts on either plan with
   some PDFs already counted (documents uploaded earlier and removed by an
   administrator's delete_document, which leaves the counter alone). *)

MaxCounted == 4       \* PDFs already counted when the run starts

Amounts == {0, 400, 600}
AdjustAmounts == {500}

InitUsage ==
    /\ now = 0
    /\ InitOther
    /\ plans = InitPlans
    /\ \E p \in {"free", "pro"}, n \in 0..MaxCounted :
          /\ n <= InitPlans[p].pdf_limit
          /\ subs = [u \in {"u1", "u2"} |->
                        [NewSubscription(IF u = "u1" THEN p ELSE "free", 0)
                            EXCEPT !.pdfs_uploaded = IF u = "u1" THEN n ELSE 0]]
    /\ txs = <<>>
    /\ kbs = <<>>
    /\ sessions = <<>>
    /\ messages = <<>>
    /\ logs = <<>>
    /\ chat = [w \in Workers |-> IdleChat]
    /\ NoDocuments
    /\ last = Respond("init", Requester("none", ""), 0, 0, 0)

CreditNext ==
    \/ \E a \in Amounts : UseCreditsView("u1", a)
    \/ \E cred \in {"u1", "staff"}, a \in AdjustAmounts, o \in {"add", "subtract"} :
          AdjustUserCredits(cred, "u1", a, o)
    \/ CurrentSubscription("u1")
    \/ \E p \in {"free", "pro"} : UpgradePlan("u1", p)
    \/ Tick

SpecCredits == InitUsage /\ [][CreditNext]_vars

(* The chat specification: users asking the agent (u1 has a subscription,
   root has none), u1 spending credits on the side, months passing *)

QLens == {0, 1000}
OutLens == {200, 2400}
SideAmounts == {700}

ChatNext ==
    \/ \E c \in {"u1", "root"}, q \in QLens, sid \in {0} \cup SessionIds :
          AskCheck(1, Requester(c, ""), q, sid)
    \/ \E o \in OutLens, raises \in BOOLEAN : AskInvoke(1, o, raises)
    \/ AskSettle(1)
    \/ \E a \in SideAmounts : UseCreditsView("u1", a)
    \/ Tick

SpecChat == Init /\ [][ChatNext]_vars

(* The upload specification: one user uploading PDFs through two concurrent
   requests and deleting them, the background threads processing them.  The
   user starts with some PDFs already counted (documents uploaded earlier
   and removed by an administrator's delete_document, which leaves the
   counter alone). *)

InitUpload ==
    /\ now = 0
    /\ InitOther
    /\ plans = InitPlans
    /\ \E n \in 0..FreePdfLimit :
          subs = [u \in {"u1", "u2"} |->
                     [NewSubscription("free", 0)
                         EXCEPT !.pdfs_uploaded = IF u = "u1" THEN n ELSE 0]]
    /\ txs = <<>>
    /\ kbs = <<>>
    /\ sessions = <<>>
    /\ messages = <<>>
    /\ logs = <<>>
    /\ chat = [w \in Workers |-> IdleChat]
    /\ NoDocuments
    /\ last = Respond("init", Requester("none", ""), 0, 0, 0)

UploadNext ==
    \/ \E w \in Workers, hasFile \in BOOLEAN :
          UploadCheck(w, Requester("u1", ""), hasFile)
    \/ \E w \in Workers : UploadStore(w)
    \/ \E i \in PdfIds : BgStart(i)
    \/ \E i \in PdfIds, found \in BOOLEAN : BgParse(i, found)
    \/ \E i \in PdfIds, raises \in BOOLEAN : BgEmbed(i, raises)
    \/ \E i \in PdfIds : BgSave(i)
    \/ \E i \in PdfIds : DeletePdf(Requester("u1", ""), JsonInt(i))

SpecUpload == InitUpload /\ [][UploadNext]_vars

(* The vector-store specification: a knowledge base registered through
   create_user under a collection name of the caller's choice, its owner
   (named by the username parameter) uploading and deleting PDFs, staff
   curating the Foundation knowledge base *)

KbCollections == {FOUNDATION_COLLECTION, "pdf_chunks_x"}

RawIds ==
    {JsonInt(i) : i \in 1..MaxPdfs}
        \cup {JsonStr(<<0>> \o Digits(i)) : i \in 1..MaxPdfs}
        \cup {JsonStr(<<>>)}

VectorNext ==
    \/ \E c \in KbCollections : CreateUser("x", c)
    \/ UploadCheck(1, Requester("none", "x"), TRUE)
    \/ UploadStore(1)
    \/ \E i \in PdfIds : BgStart(i)
    \/ \E i \in PdfIds, found \in BOOLEAN : BgParse(i, found)
    \/ \E i \in PdfIds, raises \in BOOLEAN : BgEmbed(i, raises)
    \/ \E i \in PdfIds : BgSave(i)
    \/ \E raw \in RawIds : DeletePdf(Requester("none", "x"), raw)
    \/ UploadFoundationPdf("staff", TRUE)
    \/ \E i \in FdocIds : FbgStart(i)
    \/ \E i \in FdocIds, found \in BOOLEAN : FbgParse(i, found)
    \/ \E i \in FdocIds, raises \in BOOLEAN : FbgEmbed(i, raises)
    \/ \E i \in FdocIds : FbgSave(i)
    \/ \E i \in FdocIds : DeleteFoundationDocument("staff", i)

SpecVectors == Init /\ [][VectorNext]_vars

(* The ownership specification: u2 has a knowledge base with a processed PDF
   and a chat session with one exchange; u1 has made no request yet.  Both
   users address PDFs and sessions by id. *)

InitOwned ==
    /\ now = 0
    /\ InitOther
    /\ plans = InitPlans
    /\ subs = [u \in {"u1", "u2"} |->
                  IF u = "u2"
                  THEN [NewSubscription("free", 0)
                           EXCEPT !.credits_used = ChatCost(1000, 0, 200),
                                  !.pdfs_uploaded = 1]
                  ELSE NewSubscription("free", 0)]
    /\ txs = <<LogUsage("u2", "chat")>>
    /\ kbs = <<[username |-> "u2", collection_name |-> AccountCollection("u2")]>>
    /\ sessions = <<[kb |-> 1, title |-> "first message", alive |-> TRUE]>>
    /\ messages = << <<[role |-> "user", len |-> 1000],
                       [role |-> "assistant", len |-> 200]>> >>
    /\ logs = <<1>>
    /\ chat = [w \in Workers |-> IdleChat]
    /\ pdfs = <<[alive |-> TRUE, kb |-> 1, status |-> "completed", file |-> TRUE]>>
    /\ vectors = {Chunk(AccountCollection("u2"), "pdf_id", 1)}
    /\ fdocs = <<>>
    /\ uploads = [w \in Workers |-> IdleUpload]
    /\ bg = <<[pc |-> "done", coll |-> AccountCollection("u2")]>>
    /\ fbg = <<>>
    /\ last = Respond("init", Requester("none", ""), 0, 0, 0)

Titles == {"", "renamed"}
OwnerAmounts == {800}

OwnershipNext ==
    \/ \E c \in {"u1", "u2"}, id \in PdfIds : GetPdfStatus(Requester(c, ""), id)
    \/ \E c \in {"u1", "u2"}, id \in PdfIds : GetPdfFile(Requester(c, ""), id)
    \/ \E c \in {"u1", "u2"}, id \in PdfIds : DeletePdf(Requester(c, ""), JsonInt(id))
    \/ \E c \in {"u1", "u2"}, sid \in SessionIds :
          GetSessionMessages(Requester(c, ""), sid)
    \/ \E c \in {"u1", "u2"}, sid \in SessionIds, t \in Titles :
          UpdateSession(Requester(c, ""), sid, t)
    \/ \E c \in {"u1", "u2"}, sid \in SessionIds : DeleteSession(Requester(c, ""), sid)
    \/ \E c \in {"u1", "u2"}, q \in QLens, sid \in SessionIds :
          AskCheck(1, Requester(c, ""), q, sid)
    \/ \E raises \in BOOLEAN : AskInvoke(1, 200, raises)
    \/ AskSettle(1)
    \/ \E a \in OwnerAmounts : UseCreditsView("u1", a)
    \/ Tick

SpecOwnership == InitOwned /\ [][OwnershipNext]_vars

(* The staff specification: every kind of caller on the views wrapped by
   require_staff *)

StaffNext ==
    \/ \E c \in Creds, hasFile \in BOOLEAN : UploadFoundationPdf(c, hasFile)
    \/ \E i \in FdocIds : FbgStart(i)
    \/ \E i \in FdocIds, found \in BOOLEAN : FbgParse(i, found)
    \/ \E i \in FdocIds, raises \in BOOLEAN : FbgEmbed(i, raises)
    \/ \E i \in FdocIds : FbgSave(i)
    \/ \E c \in Creds, i \in FdocIds : DeleteFoundationDocument(c, i)
    \/ \E c \in Creds, i \in PdfIds : AdminDeleteDocument(c, i)
    \/ \E c \in Creds, a \in AdjustAmounts, o \in {"add", "subtract"} :
          AdjustUserCredits(c, "u2", a, o)

SpecStaff == InitOwned /\ [][StaffNext]_vars

(* The agent cache specification: the chat requests of two workers calling
   get_or_create_agent_graph for either collection, the model never switched *)

AgentCacheNext ==
    \/ \E w \in Workers, coll \in Collections : GraphCallStart(w, coll)
    \/ \E w \in Workers : GraphCheck(w)
    \/ \E w \in Workers : GraphRead(w)
    \/ \E w \in Workers : GraphAcquire(w)
    \/ \E w \in Workers : GraphRecheck(w)
    \/ \E w \in Workers : GraphReread(w)
    \/ \E w \in Workers, raises \in BOOLEAN : GraphConstruct(w, raises)
    \/ \E w \in Workers : GraphStore(w)

SpecAgentCache == Init /\ [][AgentCacheNext]_vars

----------------------------------------------------------------------------
(* The parser specification: one run of the parser chain of
   process_pdf_background, for every combination of installed parsers and
   every outcome of each parser *)

InitParsing ==
    /\ InitData
    /\ InitAgents
    /\ \E pymupdf \in BOOLEAN, docling \in BOOLEAN, ocr \in BOOLEAN :
          parsing = [IdleParsing EXCEPT
                        !.pc = "pymupdf",
                        !.available = [pymupdf |-> pymupdf, pypdf |-> TRUE,
                                       docling |-> docling, ocr |-> ocr]]
    /\ listing = IdleListing
    /\ users = {}

ParserNext ==
    \/ \E outcome \in Outcomes : ParsePyMuPDF(outcome)
    \/ \E outcome \in Outcomes : ParsePyPDFLoader(outcome)
    \/ \E outcome \in Outcomes : ParseDocling(outcome)
    \/ \E outcome \in Outcomes : ParseOcr(outcome)

SpecParsers == InitParsing /\ [][ParserNext]_vars

----------------------------------------------------------------------------
(* The plan specification: staff creating, updating and deactivating
   plans, the setup_plans command, accounts registering and saving their
   profile; the tables start empty or as setup_plans leaves them *)

InitSignup ==
    /\ InitData
    /\ InitOther

InitEmptyTables ==
    /\ now = 0
    /\ plans = NoRows
    /\ subs = NoRows
    /\ txs = <<>>
    /\ kbs = <<>>
    /\ sessions = <<>>
    /\ messages = <<>>
    /\ logs = <<>>
    /\ chat = [w \in Workers |-> IdleChat]
    /\ NoDocuments
    /\ last = Respond("init", Requester("none", ""), 0, 0, 0)
    /\ InitOther

\* the body of a create request for the plan `name`
PlanRequest(name, default) == [PlanCatalog[name] EXCEPT !.is_default = default, !.is_active = TRUE]

\* the callers of the plan endpoints: a member of staff and a plain user
PlanCreds == {"staff", "u1"}

\* the callers of the profile endpoint: nobody, a subscribed user and an
\* account without a subscription
ProfileCreds == {"none", "u1", "root"}

PlanNext ==
    \/ \E cred \in PlanCreds, name \in PlanNames, default \in BOOLEAN :
          CreateSubscriptionPlan(cred, name, PlanRequest(name, default))
    \/ \E cred \in PlanCreds, name \in PlanNames, active \in Changes, default \in Changes :
          UpdateSubscriptionPlan(cred, name, active, default)
    \/ \E cred \in PlanCreds, name \in PlanNames : DeleteSubscriptionPlan(cred, name)
    \/ SetupPlans
    \/ \E name \in NewNames \cup {"u1"} : RegisterView(name)
    \/ \E cred \in ProfileCreds : UpdateProfileView(cred)

SpecPlans == (InitSignup \/ InitEmptyTables) /\ [][PlanNext]_vars

----------------------------------------------------------------------------
(* The list specification: a member of staff paging through one of the
   list endpoints over a fixed result, and users reading their transaction
   history, with query parameters that are absent, numbers or not numbers *)

\* a query parameter spelling the number n
Param(n) == [kind |-> "str", text |-> Digits(n)]

\* a query parameter that is not a number
NotANumber == [kind |-> "str", text |-> <<Letter>>]

PageSizeParams == {Absent, NotANumber} \cup {Param(n) : n \in 0..2}

PageParams == {Absent, NotANumber} \cup {Param(n) : n \in 0..MaxPage}

LimitParams == {Absent, NotANumber, Param(1)}

ListCreds == {"staff", "u1"}

InitListing ==
    /\ InitData
    /\ InitAgents
    /\ parsing = IdleParsing
    /\ users = {}
    /\ \E endpoint \in ListEndpoints, total \in 0..MaxItems, size \in PageSizeParams :
          listing = [endpoint |-> endpoint, total |-> total, page_size |-> size,
                     pages |-> <<>>]

ListNext ==
    \/ \E cred \in ListCreds, rawPage \in PageParams : ListPage(cred, rawPage)
    \/ \E cred \in {"none", "u1"}, rawLimit \in LimitParams, rawOffset \in LimitParams :
          TransactionHistory(cred, rawLimit, rawOffset)

SpecLists == InitListing /\ [][ListNext]_vars

----------------------------------------------------------------------------
(* The concurrent chat specification: two workers serving chat requests of
   the same user at the same time, each deducting its credits once the agent
   has answered *)

ConcurrentChatNext ==
    \/ \E w \in Workers, q \in QLens, sid \in {0} \cup SessionIds :
          AskCheck(w, Requester("u1", ""), q, sid)
    \/ \E w \in Workers, o \in OutLens, raises \in BOOLEAN : AskInvoke(w, o, raises)
    \/ \E w \in Workers : AskSettle(w)

SpecConcurrentChat == Init /\ [][ConcurrentChatNext]_vars

----------------------------------------------------------------------------
(* The model switch specification: the chat requests of two workers calling
   get_or_create_agent_graph while a member of staff switches the model *)

ModelSwitchNext ==
    \/ AgentCacheNext
    \/ \E cred \in {"staff", "u1"}, model_id \in ModelIds \cup {"unknown"} :
          SetModelConfig(cred, model_id)
    \/ SetModelClear

SpecModelSwitch == Init /\ [][ModelSwitchNext]_vars

----------------------------------------------------------------------------
(* The fair upload specification: the upload specification with every
   background thread scheduled until it returns *)

\* the steps of the thread of PDF i
BgThread(i) ==
    \/ BgStart(i)
    \/ \E found \in BOOLEAN : BgParse(i, found)
    \/ \E raises \in BOOLEAN : BgEmbed(i, raises)
    \/ BgSave(i)

SpecUploadFair ==
    /\ InitUpload
    /\ [][UploadNext]_vars
    /\ \A i \in 1..MaxPdfs : WF_vars(BgThread(i))

----------------------------------------------------------------------------
(* Properties of the credit endpoint and of the subscription's derived fields *)

\* C1: UserSubscription.use_credits(amount) with amount > 0, measured after
\* the expiry reset when the billing period is over: if credits_used + amount
\* <= plan.credit_limit it succeeds and credits_used grows by exactly amount,
\* otherwise it fails and credits_used stays as it was.
C1_UseCreditsContract ==
    [][(last'.op = "use_credits" /\ last'.code \in {200, 402}) =>
          LET u == last'.cred
              amount == last'.n
              used == IF now > subs[u].period_end THEN 0 ELSE subs[u].credits_used
              limit == plans[subs[u].plan].credit_limit
          IN /\ amount > 0
             /\ IF used + amount <= limit
                THEN last'.code = 200 /\ subs'[u].credits_used = used + amount
                ELSE last'.code = 402 /\ subs'[u].credits_used = used]_vars

\* a deduction that uses the free plan's limit up exactly has succeeded
C1_Witness ==
    /\ last.op = "use_credits"
    /\ last.code = 200
    /\ subs["u1"].plan = "free"
    /\ subs["u1"].credits_used = FreeCreditLimit

\* C6 as stated: in every reachable state credits_remaining is
\* plan.credit_limit - credits_used and pdfs_remaining is
\* plan.pdf_limit - pdfs_uploaded.
C6_RemainingIsDifference ==
    \A u \in DOMAIN subs :
        /\ CreditsRemaining(subs[u]) =
              plans[subs[u].plan].credit_limit - subs[u].credits_used
        /\ PdfsRemaining(subs[u]) =
              plans[subs[u].plan].pdf_limit - subs[u].pdfs_uploaded

\* C6, amended: the credits_remaining and pdfs_remaining a response reports
\* are the differences limit - used of the stored subscription, or 0 when
\* the usage is above the plan's limit.
C6_RemainingIsClampedDifference ==
    LET s == subs[last.cred]
        creditsLeft == plans[s.plan].credit_limit - s.credits_used
        pdfsLeft == plans[s.plan].pdf_limit - s.pdfs_uploaded
    IN /\ (last.op = "current_subscription" /\ last.code = 200) =>
             /\ last.n = (IF creditsLeft < 0 THEN 0 ELSE creditsLeft)
             /\ last.m = (IF pdfsLeft < 0 THEN 0 ELSE pdfsLeft)
       /\ (last.op = "use_credits" /\ last.code \in {200, 402}) =>
             last.m = (IF creditsLeft < 0 THEN 0 ELSE creditsLeft)

\* a subscription read while both usages are above the plan's limits
C6_Witness ==
    /\ last.op = "current_subscription"
    /\ last.code = 200
    /\ subs[last.cred].credits_used > plans[subs[last.cred].plan].credit_limit
    /\ subs[last.cred].pdfs_uploaded > plans[subs[last.cred].plan].pdf_limit
    /\ last.n = 0
    /\ last.m = 0

----------------------------------------------------------------------------
(* Properties of ask_agent *)

C3_AnsweredChatIsPaid ==
    [][(last'.op = "ask_settle" /\ last'.code = 200 /\ last'.cred \in AccountNames) =>
          LET u == last'.cred
              cost == last'.n
          IN /\ \E w \in Workers :
                   /\ chat[w].pc = "settle"
                   /\ chat'[w].pc = "idle"
                   /\ subs'[u].credits_used \in
                         {subs[u].credits_used + cost,
                          chat[w].inst.credits_used + cost,
                          cost}
             /\ txs' = Append(txs, [user |-> u, type |-> "chat"])]_vars

----------------------------------------------------------------------------
(* Properties of the PDF pipeline *)

\* C4: on an unchanged plan pdfs_uploaded never exceeds plan.pdf_limit, and
\* upload_pdf accepts an upload of an authenticated user only while
\* pdfs_uploaded < pdf_limit (it is rejected whenever pdfs_uploaded >=
\* pdf_limit), under any interleaving of the user's concurrent uploads.
C4_PdfLimitEnforced ==
    [][/\ \A u \in DOMAIN subs :
             subs'[u].pdfs_uploaded <= plans'[subs'[u].plan].pdf_limit
       /\ (last'.op = "upload_pdf" /\ last'.code = 200 /\ last'.cred \in DOMAIN subs) =>
             subs[last'.cred].pdfs_uploaded
                < plans[subs[last'.cred].plan].pdf_limit]_vars

\* C5 as stated: a record starts as 'uploading' and its status moves only
\* uploading -> processing, processing -> completed, processing -> failed.
C5_StatusFromUploading ==
    [][\A i \in 1..Len(pdfs') :
          IF i > Len(pdfs)
          THEN pdfs'[i].status = "uploading"
          ELSE \/ pdfs'[i].status = pdfs[i].status
               \/ pdfs[i].status = "uploading" /\ pdfs'[i].status = "processing"
               \/ pdfs[i].status = "processing"
                     /\ pdfs'[i].status \in {"completed", "failed"}]_vars

\* C5, amended: a record starts as 'processing'; the only status changes are
\* processing -> completed and processing -> failed, so a 'completed' or
\* 'failed' status never changes again.
C5_StatusFromProcessing ==
    [][\A i \in 1..Len(pdfs') :
          IF i > Len(pdfs)
          THEN pdfs'[i].status = "processing"
          ELSE \/ pdfs'[i].status = pdfs[i].status
               \/ pdfs[i].status = "processing"
                     /\ pdfs'[i].status \in {"completed", "failed"}]_vars

\* one PDF was processed to 'completed' and another to 'failed'
C5_Witness ==
    \E i, j \in PdfIds :
        /\ bg[i].pc = "done" /\ pdfs[i].status = "completed"
        /\ bg[j].pc = "done" /\ pdfs[j].status = "failed"

\* C10: a successful delete_pdf removes the PDF's record and every chunk
\* tagged with its pdf_id from the user's collection, and removes no chunk
\* of another PDF of the user that still exists.
C10_DeleteRemovesChunks ==
    [][(last'.op = "delete_pdf" /\ last'.code = 200) =>
          LET id == last'.m
              kb == pdfs[id].kb
              coll == kbs[kb].collection_name
              tagged(V, j) == {c \in V : c.coll = coll /\ c.key = "pdf_id"
                                            /\ c.tag = Digits(j)}
          IN /\ ~pdfs'[id].alive
             /\ tagged(vectors', id) = {}
             /\ \A j \in PdfIds \ {id} :
                   (pdfs'[j].alive /\ pdfs'[j].kb = kb) =>
                       tagged(vectors, j) \subseteq vectors']_vars

\* C8: the Foundation collection is changed only by the staff endpoints
\* upload_foundation_pdf (through the thread it starts) and
\* delete_foundation_document; no other operation adds a chunk to it or
\* removes one from it.
C8_FoundationChangedByStaffOnly ==
    [][ChunksOf(FOUNDATION_COLLECTION)' # ChunksOf(FOUNDATION_COLLECTION) =>
          last'.op \in {"process_foundation_pdf_background",
                        "delete_foundation_document"}]_vars

----------------------------------------------------------------------------
(* Properties of the access checks *)

\* the PDF or session a step addressed exists and belongs to the knowledge
\* base of another user than the one the request acts for
AddressedForeign ==
    LET name == IF last'.cred \in AccountNames THEN last'.cred ELSE last'.username
        id == last'.m
    IN \/ /\ last'.op \in {"delete_pdf", "get_pdf_status", "get_pdf_file"}
          /\ id \in PdfIds
          /\ pdfs[id].alive
          /\ kbs[pdfs[id].kb].username # name
       \/ /\ last'.op \in {"get_session_messages", "update_session",
                           "delete_session", "ask_check"}
          /\ id \in SessionIds
          /\ sessions[id].alive
          /\ kbs[sessions[id].kb].username # name

\* C7 as stated: given an id owned by another user, the seven endpoints
\* answer 404 and leave every record, file and vector chunk unchanged.
C7_ForeignIdLeavesAllUnchanged ==
    [][AddressedForeign =>
          /\ last'.code = 404
          /\ UNCHANGED <<plans, subs, txs, kbs, sessions, messages, logs, chat,
                         pdfs, vectors, fdocs, uploads, bg, fbg>>]_vars

\* C7, amended: given an id owned by another user, the endpoints do not act
\* on it: they answer 404 (or 400 / 403 when the request already fails
\* update_session's title check or ask_agent's question or credit check)
\* and leave every PDF, file, vector chunk, session, message, conversation
\* log and credit transaction unchanged; the only rows that may change are
\* the requester's own: a knowledge-base row created for a first request,
\* and the subscription's expired billing period reset.
C7_ForeignIdIsNotActedOn ==
    [][AddressedForeign =>
          LET name == last'.cred IN
          /\ \/ last'.code = 404
             \/ last'.op = "update_session" /\ last'.code = 400
             \/ last'.op = "ask_check" /\ last'.code \in {400, 403}
          /\ UNCHANGED <<plans, txs, sessions, messages, logs, chat,
                         pdfs, vectors, fdocs, uploads, bg, fbg>>
          /\ \A i \in KbIds : kbs'[i] = kbs[i]
          /\ \A i \in (1..Len(kbs')) \ KbIds : kbs'[i].username = name
          /\ \A u \in DOMAIN subs :
                \/ subs'[u] = subs[u]
                \/ /\ u = name
                   /\ now > subs[u].period_end
                   /\ subs'[u] = [subs[u] EXCEPT !.credits_used = 0,
                                                 !.period_end = now + 1]]_vars

\* u1 asked to delete the session of u2 and was answered 404; the session
\* and its messages are still there
C7_Witness ==
    /\ last.op = "delete_session"
    /\ last.cred = "u1"
    /\ last.code = 404
    /\ sessions[last.m].alive
    /\ kbs[sessions[last.m].kb].username = "u2"
    /\ messages[last.m] # <<>>

\* C9: a view wrapped by require_staff runs its body only for a valid token
\* of an active user with is_staff or is_superuser; any other request is
\* answered 401 (no token, invalid token, inactive user) or 403
\* (authenticated, not staff) and changes nothing.
C9_StaffOnly ==
    [][last'.op \in {"upload_foundation_pdf", "delete_foundation_document",
                     "delete_document", "adjust_user_credits"} =>
          LET c == last'.cred
              valid == c \in AccountNames /\ Accounts[c].is_active
              staff == valid /\ (Accounts[c].is_staff \/ Accounts[c].is_superuser)
          IN /\ ~valid => last'.code = 401
             /\ (valid /\ ~staff) => last'.code = 403
             /\ staff => last'.code \notin {401, 403}
             /\ ~staff =>
                   UNCHANGED <<now, plans, subs, txs, kbs, sessions, messages, logs,
                               chat, pdfs, vectors, fdocs, uploads, bg, fbg>>]_vars

\* a user who is not staff asked to delete an existing Foundation document
\* whose chunks are stored, and was answered 403
C9_Witness ==
    /\ last.op = "delete_foundation_document"
    /\ last.cred = "u1"
    /\ last.code = 403
    /\ fdocs[last.m].alive
    /\ ChunksOf(FOUNDATION_COLLECTION) # {}

----------------------------------------------------------------------------
(* Properties of the agent graph cache *)

\* the construct_agent_graph runs for collection c among runs
RunsFor(runs, c) == {i \in 1..Len(runs) : runs[i].coll = c}

\* C11 as stated: with no cache clear, construct_agent_graph runs at most
\* once for a collection, every call returns the graph cached for its
\* collection, and an entry once cached stays.
C11_ConstructRunsAtMostOnce ==
    [][/\ \A c \in Collections : Cardinality(RunsFor(constructed', c)) <= 1
       /\ \A w \in Workers :
             graphCalls'[w].pc = "done" =>
                 /\ graphCalls'[w].graph # NoGraph
                 /\ graphCalls'[w].graph = agent_cache'[graphCalls'[w].coll]
       /\ \A c \in Collections :
             agent_cache[c] # NoGraph => agent_cache'[c] = agent_cache[c]]_vars

\* C11, amended: with no cache clear, at most one construct_agent_graph run
\* for a collection returns a graph; a run that raises caches nothing and
\* its caller gets the exception, which is the only way a call fails; every
\* call that returns, returns the graph cached for its collection; an entry
\* once cached stays.
C11_ConstructSucceedsAtMostOnce ==
    [][/\ \A c \in Collections :
             Cardinality({i \in RunsFor(constructed', c) : constructed'[i].ok}) <= 1
       /\ \A w \in Workers :
             graphCalls'[w].pc = "done" =>
                 IF graphCalls'[w].via = "raised"
                 THEN /\ graphCalls'[w].graph = NoGraph
                      /\ \E i \in RunsFor(constructed', graphCalls'[w].coll) :
                             ~constructed'[i].ok
                 ELSE /\ graphCalls'[w].graph # NoGraph
                      /\ graphCalls'[w].graph = agent_cache'[graphCalls'[w].coll]
                      /\ constructed'[graphCalls'[w].graph].ok
       /\ \A c \in Collections :
             agent_cache[c] # NoGraph => agent_cache'[c] = agent_cache[c]]_vars

\* two calls for one collection both missed the cache; one built the graph,
\* the other waited for the lock and was returned the same graph
C11_Witness ==
    /\ graphCalls[1].pc = "done" /\ graphCalls[1].via = "built"
    /\ graphCalls[2].pc = "done" /\ graphCalls[2].via = "locked"
    /\ graphCalls[1].coll = graphCalls[2].coll
    /\ graphCalls[1].graph = graphCalls[2].graph
    /\ graphCalls[1].graph # NoGraph

----------------------------------------------------------------------------
(* Properties of the parser chain *)

\* position of a parser in the chain
ParserRank(parser) == CHOOSE k \in 1..Len(Parsers) : Parsers[k] = parser

\* C12: the parsers are invoked in the order PyMuPDF, PyPDFLoader, Docling,
\* OCR and the first success wins: a parser that is invoked comes later in
\* the chain than every parser invoked before it, each of those raised or
\* produced nothing, every installed parser before it in the chain was
\* invoked, and `documents` holds what the last invoked parser produced.
C12_FirstSuccessWins ==
    /\ \A k \in 1..Len(parsing.invoked) :
          /\ \A j \in 1..(k - 1) :
                /\ ParserRank(parsing.invoked[j].parser) < ParserRank(parsing.invoked[k].parser)
                /\ parsing.invoked[j].outcome # "documents"
          /\ \A r \in 1..(ParserRank(parsing.invoked[k].parser) - 1) :
                parsing.available[Parsers[r]] =>
                    \E j \in 1..(k - 1) : parsing.invoked[j].parser = Parsers[r]
    /\ parsing.documents # "" =>
          /\ Len(parsing.invoked) > 0
          /\ parsing.invoked[Len(parsing.invoked)] =
                 [parser |-> parsing.documents, outcome |-> "documents"]
    /\ parsing.pc = "done" /\ parsing.documents = "" =>
          \A r \in 1..Len(Parsers) :
              parsing.available[Parsers[r]] =>
                  \E j \in 1..Len(parsing.invoked) :
                      /\ parsing.invoked[j].parser = Parsers[r]
                      /\ parsing.invoked[j].outcome # "documents"

\* PyMuPDF produced documents and the chain ended with no other parser invoked
C12_Witness ==
    /\ parsing.pc = "done"
    /\ parsing.available.docling /\ parsing.available.ocr
    /\ parsing.invoked = <<[parser |-> "pymupdf", outcome |-> "documents"]>>
    /\ parsing.documents = "pymupdf"

----------------------------------------------------------------------------
(* Properties of the subscription plans and of the subscription a new
   account receives *)

DefaultPlans == {n \in DOMAIN plans : plans[n].is_default}

\* C13: after any sequence of plan saves (create_subscription_plan,
\* update_subscription_plan, delete_subscription_plan, setup_plans, the
\* fallback creation of the signal) at most one plan has is_default = True.
C13_AtMostOneDefaultPlan == Cardinality(DefaultPlans) <= 1

\* an update made `pro` the default plan and `free` lost the flag
C13_Witness ==
    /\ last.op = "update_subscription_plan"
    /\ last.code = 200
    /\ last.username = "pro"
    /\ DefaultPlans = {"pro"}
    /\ "free" \in DOMAIN plans

ActiveDefaultPlans == {n \in DOMAIN plans : plans[n].is_default /\ plans[n].is_active}

\* C14: a registration that succeeds gives the new user one subscription,
\* active, on the active default plan when there is one and otherwise on the
\* plan named free, which is created with credit_limit 1000 and pdf_limit 3
\* when absent; no other subscription changes; saving an existing user
\* leaves plans and subscriptions as they were.
C14_NewUserGetsOneSubscription ==
    [][/\ (last'.op = "register" /\ last'.code = 201) =>
            LET u == last'.username IN
            /\ u \notin DOMAIN subs
            /\ DOMAIN subs' = DOMAIN subs \cup {u}
            /\ \A v \in DOMAIN subs : subs'[v] = subs[v]
            /\ subs'[u].status = "active"
            /\ subs'[u].credits_used = 0
            /\ IF ActiveDefaultPlans # {}
               THEN /\ subs'[u].plan \in ActiveDefaultPlans
                    /\ plans' = plans
               ELSE /\ subs'[u].plan = "free"
                    /\ IF "free" \in DOMAIN plans
                       THEN plans' = plans
                       ELSE /\ DOMAIN plans' = DOMAIN plans \cup {"free"}
                            /\ plans'["free"].credit_limit = FreeCreditLimit
                            /\ plans'["free"].pdf_limit = FreePdfLimit
                            /\ \A n \in DOMAIN plans :
                                  plans'[n] = [plans[n] EXCEPT !.is_default = FALSE]
       /\ (last'.op = "update_profile" /\ last' # last) =>
            /\ subs' = subs
            /\ plans' = plans
      ]_vars

\* an account registered while no plan existed: the plan free was created
\* and the account subscribed to it
C14_Witness ==
    /\ last.op = "register"
    /\ last.code = 201
    /\ users = {last.username}
    /\ DOMAIN plans = {"free"}
    /\ plans["free"] = PlanCatalog["free"]
    /\ DOMAIN subs = {last.username}
    /\ subs[last.username] = NewSubscription("free", now)

----------------------------------------------------------------------------
(* Properties of the views' error handling and of the list endpoints *)

\* C15: every view answers every request with an HTTP status: no exception
\* raised while a request is handled leaves the view.
C15_NoExceptionLeavesAView == last.code # Unhandled

\* the pages fetched so far, the page size they were fetched with
FetchedPages == 1..Len(listing.pages)

\* page k holds the rows at positions [(k-1)*page_size, k*page_size) of the
\* result and reports total_pages = ceil(total / page_size)
PageAsSliced(k) ==
    LET body == listing.pages[k]
        size == body.page_size
        first == (k - 1) * size
        upto == IF k * size < listing.total THEN k * size ELSE listing.total
        count == Max(0, upto - first)
    IN
    /\ body.page = k
    /\ size >= 1
    /\ body.total = listing.total
    /\ Len(body.items) = count
    /\ \A j \in 1..count : body.items[j] = ResultRows(listing.total)[first + j]
    /\ body.total_pages * size >= listing.total
    /\ (body.total_pages - 1) * size < listing.total

\* once pages 1..total_pages are fetched every row is on exactly one of them
PagesCoverResult ==
    (listing.pages # <<>> /\ Len(listing.pages) >= listing.pages[1].total_pages) =>
        \A row \in 1..listing.total :
            Cardinality({kj \in (1..listing.pages[1].total_pages) \X (1..listing.total) :
                            /\ kj[2] <= Len(listing.pages[kj[1]].items)
                            /\ listing.pages[kj[1]].items[kj[2]] = row}) = 1

\* page k reports has_next = (page < total_pages) and has_prev = (page > 1)
PageReportsNextAndPrev(k) ==
    LET body == listing.pages[k] IN
    /\ {"has_next", "has_prev"} \subseteq DOMAIN body
    /\ body.has_next = (k < body.total_pages)
    /\ body.has_prev = (k > 1)

\* C16 as stated: each of the four list endpoints returns the slice of the
\* page, total_pages = ceil(total / page_size), has_next and has_prev, and
\* pages 1..total_pages hold every row once.
C16_PagesReportNextAndPrev ==
    /\ \A k \in FetchedPages : PageAsSliced(k) /\ PageReportsNextAndPrev(k)
    /\ PagesCoverResult

\* C16: each of the four list endpoints returns the slice of the page and
\* total_pages = ceil(total / page_size), and pages 1..total_pages hold every
\* row once; list_foundation_documents reports has_next and has_prev, the
\* three admin lists report neither.
C16_PagesAsSliced ==
    /\ \A k \in FetchedPages :
          /\ PageAsSliced(k)
          /\ IF listing.endpoint = "list_foundation_documents"
             THEN PageReportsNextAndPrev(k)
             ELSE {"has_next", "has_prev"} \cap DOMAIN listing.pages[k] = {}
    /\ PagesCoverResult

\* five users listed two to a page: the third page holds the fifth alone
C16_Witness ==
    /\ listing.endpoint = "list_users"
    /\ listing.total = 5
    /\ Len(listing.pages) = 3
    /\ listing.pages[3].total_pages = 3
    /\ listing.pages[3].items = <<5>>
    /\ listing.pages[1].items = <<1, 2>>

----------------------------------------------------------------------------
(* Properties of a delete that overlaps the background thread *)

\* the chunks tagged with the pdf_id i
ChunksTagged(V, i) == {c \in V : c.key = "pdf_id" /\ c.tag = Digits(i)}

\* C17: once delete_pdf has deleted the record of a PDF the record never
\* reappears and no chunk tagged with its pdf_id exists afterwards, whatever
\* the background thread of that PDF does after the delete.
C17_DeletedPdfStaysDeleted ==
    [][\A i \in PdfIds :
          ~pdfs[i].alive => (~pdfs'[i].alive /\ ChunksTagged(vectors', i) = {})]_vars

----------------------------------------------------------------------------
(* Properties of concurrent credit deductions *)

\* C18: when deductions run concurrently on one subscription no update is
\* lost: every deduction that reports success (and logs its transaction)
\* raises the stored credits_used by its amount, so that the final value is
\* the initial one plus the amounts of the successful calls, and credits_used
\* never exceeds plan.credit_limit.
C18_NoLostCreditUpdate ==
    [][/\ (last'.op = "ask_settle" /\ Len(txs') = Len(txs) + 1) =>
            subs'["u1"].credits_used = subs["u1"].credits_used + last'.n
       /\ subs'["u1"].credits_used <= plans'[subs'["u1"].plan].credit_limit
      ]_vars

----------------------------------------------------------------------------
(* Properties of the model switch *)

\* C19: a chat request that starts after set_model_config has switched the
\* model and cleared the cache (and meets no later switch) is served by a
\* graph built for the model that was active when it started.
C19_LaterRequestsUseNewModel ==
    \A w \in Workers :
        (graphCalls[w].pc = "done" /\ graphCalls[w].since # ""
            /\ graphCalls[w].graph # NoGraph) =>
        constructed[graphCalls[w].graph].model = graphCalls[w].since

----------------------------------------------------------------------------
(* Properties of the background thread's end *)

\* the thread of PDF i has returned
BgReturned(i) == i \in PdfIds /\ bg[i].pc = "done"

====
